---------------------------- MODULE Spec2Model ----------------------------
(***************************************************************************)
(* A model of the deepin-mcp task pipeline:                                *)
(*   - MCPClient (src/client/client.py): the per-task execution state      *)
(*     machine process_query and the rolling conversation history;         *)
(*   - TaskPlanner / TaskManager (src/client/planning.py, src/planning.py, *)
(*     src/client/task.py): plan_tasks, execute_task, execute_tasks,       *)
(*     summarize_results;                                                  *)
(*   - the entry points of src/main.py.                                    *)
(*                                                                         *)
(* Texts that the code inspects character by character (tool results) are  *)
(* sequences of characters; a non-ASCII character is written by its code   *)
(* point ("u5931").  Texts that the code parses (the planner's LM reply)   *)
(* are sequences of lexical pieces.  Requests and task descriptions are    *)
(* sequences of pieces as well, so that all texts compare with each other. *)
(***************************************************************************)
EXTENDS Integers, Sequences, FiniteSets, TLC

VARIABLES
    \* ---- MCPClient fields (client.py:35-41)
    history_messages,   \* list of [role, content]
    command_history,    \* list of raw queries
    \* ---- ghost of the history specification
    appended,           \* every (query, response) pair ever passed to _add_to_history
    \* ---- classifier specification
    cl_text, cl_site, cl_verdict,
    \* ---- planner specification
    pl_content, pl_request, pl_out,
    \* ---- the pipeline specification
    session,            \* the number of requests and process_query runs so far
    pq,                 \* the process_query run in progress (one MCPClient)
    orch,               \* the orchestration run in progress (one TaskPlanner)
    \* ---- the registry specification
    reg,                \* configured servers, connected_servers, all_tools
    \* ---- the bash server specification
    bash,               \* the run_bash call in progress and the subprocesses
    \* ---- the streaming specification
    stream,             \* one streamed request: the run, the queue, the events sent
    \* ---- the specifications of concurrent runs
    lazy,               \* execute_task runs that connect lazily, on one TaskPlanner
    par,                \* concurrent runs on one MCPClient and its one session
    output_capture      \* the OutputCapture of src/main.py and the streams that read it

histVars == <<history_messages, command_history, appended>>
clVars   == <<cl_text, cl_site, cl_verdict>>
plVars   == <<pl_content, pl_request, pl_out>>
runVars  == <<session, pq, orch>>
\* the variables of the single-operation specifications
concVars == <<lazy, par, output_capture>>
sideVars == <<reg, bash, stream, concVars>>
smallVars == <<appended, clVars, plVars, sideVars>>
vars     == <<histVars, clVars, plVars, runVars, sideVars>>

(***************************************************************************)
(* Bounds of the model.                                                    *)
(***************************************************************************)
MaxAppends == 15     \* _add_to_history calls in the history specification
MaxPieces  == 2      \* pieces concatenated into a classifier input
MaxLen     == 4      \* pieces of a planner LM reply
MaxRequests == 2     \* requests and process_query runs in one behaviour of the pipeline
MaxServers == 2      \* servers of the configuration
MaxTools   == 2      \* tools one server offers
MaxCalls   == 2      \* run_bash calls
MaxTasks   == 2      \* tasks of a streamed request
MaxRuns    == 12     \* process_query calls of a long chat session

(***************************************************************************)
(* Generic sequence helpers (Python list / str behaviour).                 *)
(***************************************************************************)
RECURSIVE Flatten(_)
Flatten(ss) == IF ss = <<>> THEN <<>> ELSE Head(ss) \o Flatten(Tail(ss))

\* s[-n:] of Python for n > 0
LastN(s, n) == IF Len(s) <= n THEN s ELSE SubSeq(s, Len(s) - n + 1, Len(s))

\* needle in hay  (substring test of Python str)
Contains(hay, needle) ==
    \E i \in 1..(Len(hay) - Len(needle) + 1) :
        SubSeq(hay, i, i + Len(needle) - 1) = needle

\* all sequences over S of length 0..n
SeqsUpTo(S, n) == UNION { [1..k -> S] : k \in 0..n }

(***************************************************************************)
(* FailureClassifier: the substring heuristic of process_query.            *)
(***************************************************************************)
UpperCase == {"A", "C", "D", "E", "F", "I", "L", "N", "O", "P", "R", "S", "T", "X"}

\* str.lower() on one character: only cased letters change
LowerChar(c) ==
    CASE c = "A" -> "a" [] c = "C" -> "c" [] c = "D" -> "d" [] c = "E" -> "e"
      [] c = "F" -> "f" [] c = "I" -> "i" [] c = "L" -> "l" [] c = "N" -> "n"
      [] c = "O" -> "o" [] c = "P" -> "p" [] c = "R" -> "r" [] c = "S" -> "s"
      [] c = "T" -> "t" [] c = "X" -> "x"
      [] OTHER -> c

\* str.lower()
Lower(text) == [i \in 1..Len(text) |-> LowerChar(text[i])]

\* the places of process_query that classify a tool result, by the line of
\* their english_indicators list
Sites == {247, 313, 377, 515, 579}

\* ["error", "exception", "failed"]
english_indicators(site) ==
    CASE site = 247 -> { <<"e","r","r","o","r">>, <<"e","x","c","e","p","t","i","o","n">>, <<"f","a","i","l","e","d">> }
      [] site = 313 -> { <<"e","r","r","o","r">>, <<"e","x","c","e","p","t","i","o","n">>, <<"f","a","i","l","e","d">> }
      [] site = 377 -> { <<"e","r","r","o","r">>, <<"e","x","c","e","p","t","i","o","n">>, <<"f","a","i","l","e","d">> }
      [] site = 515 -> { <<"e","r","r","o","r">>, <<"e","x","c","e","p","t","i","o","n">>, <<"f","a","i","l","e","d">> }
      [] site = 579 -> { <<"e","r","r","o","r">>, <<"e","x","c","e","p","t","i","o","n">>, <<"f","a","i","l","e","d">> }

\* the nine localized indicators, the same list at every site:
\* u5931 u8d25 | u4e0d u5b58 u5728 | u65e0 u6cd5 | u9519 u8bef | u672a u627e u5230
\* | u65e0 u6548 | u8bf7 u68c0 u67e5 | u8bf7 u786e u8ba4 | u4e0d u6b63 u786e
ChineseList ==
    { <<"u5931","u8d25">>, <<"u4e0d","u5b58","u5728">>, <<"u65e0","u6cd5">>,
      <<"u9519","u8bef">>, <<"u672a","u627e","u5230">>, <<"u65e0","u6548">>,
      <<"u8bf7","u68c0","u67e5">>, <<"u8bf7","u786e","u8ba4">>,
      <<"u4e0d","u6b63","u786e">> }

chinese_indicators(site) ==
    CASE site = 247 -> ChineseList
      [] site = 313 -> ChineseList
      [] site = 377 -> ChineseList
      [] site = 515 -> ChineseList
      [] site = 579 -> ChineseList

is_english_failed(site, tool_result) ==
    \E indicator \in english_indicators(site) : Contains(Lower(tool_result), indicator)

is_chinese_failed(site, tool_result) ==
    \E indicator \in chinese_indicators(site) : Contains(tool_result, indicator)

\* the mutant of the classifier: the English test forgets .lower()
classify_nolower(site, tool_result) ==
    (\E indicator \in english_indicators(site) : Contains(tool_result, indicator))
    \/ is_chinese_failed(site, tool_result)

\* TRUE iff the tool result is treated as a failed call at this site
classify(site, tool_result) ==
    is_english_failed(site, tool_result) \/ is_chinese_failed(site, tool_result)

(***************************************************************************)
(* ConversationState: MCPClient._add_to_history / _manage_history_size.    *)
(* An MCPClient is the record self = [history_messages, command_history].  *)
(***************************************************************************)
max_history_length == 10

\* the system prompt every MCPClient starts with (client.py:35-37)
SystemMessage == [role |-> "system", content |-> <<"system-prompt">>]

InitialHistory == <<SystemMessage>>

IsSystem(msg) == msg.role = "system"

\* mutant of _manage_history_size: the slice keeps one message too few per pair bound
manage_history_size_offbyone(self) ==
    LET ch == IF Len(self.command_history) > max_history_length
              THEN LastN(self.command_history, max_history_length)
              ELSE self.command_history
        hm == IF Len(self.history_messages) > max_history_length * 2 + 1
              THEN SelectSeq(self.history_messages, IsSystem)
                   \o LastN(self.history_messages, max_history_length * 2 - 1)
              ELSE self.history_messages
    IN  [history_messages |-> hm, command_history |-> ch]

manage_history_size(self) ==
    LET ch == IF Len(self.command_history) > max_history_length
              THEN LastN(self.command_history, max_history_length)
              ELSE self.command_history
        hm == IF Len(self.history_messages) > max_history_length * 2 + 1
              THEN LET system_messages == SelectSeq(self.history_messages, IsSystem)
                       recent_messages == LastN(self.history_messages, max_history_length * 2)
                   IN  system_messages \o recent_messages
              ELSE self.history_messages
    IN  [history_messages |-> hm, command_history |-> ch]

\* mutant: the assistant message is not appended in the same step
add_to_history_split(self, query, response) ==
    manage_history_size(
        [self EXCEPT !.history_messages =
            self.history_messages \o << [role |-> "user", content |-> query] >>])

add_to_history(self, query, response) ==
    manage_history_size(
        [self EXCEPT !.history_messages =
            self.history_messages
              \o << [role |-> "user", content |-> query],
                    [role |-> "assistant", content |-> response] >>])

Self == [history_messages |-> history_messages, command_history |-> command_history]

SetSelf(s) ==
    /\ history_messages' = s.history_messages
    /\ command_history' = s.command_history

(***************************************************************************)
(* Decomposer: TaskPlanner.plan_tasks / TaskManager.plan_tasks.            *)
(*                                                                         *)
(* The LM reply is None or a sequence of pieces:                           *)
(*   "FENCE" three backticks         "json"  the word json                 *)
(*   " "     blanks                  "txt"   prose that is no JSON         *)
(*   "7"     a digit                                                       *)
(*   "OBJ1"  {"tasks": [one task]}   "OBJ0"  {"tasks": []}                 *)
(*   "OBJX"  a JSON object without a "tasks" key                           *)
(*   "ARR"   a JSON array of numbers "STR"   a JSON string                 *)
(*   "H"     {"tasks": [{"tool_type": "bash", "description": "a            *)
(*   "T"     b"}]}            (H m T is one object when m can stand        *)
(*                             inside a JSON string)                       *)
(***************************************************************************)
None == <<"<None>">>

Pieces == {"FENCE", "json", " ", "txt", "7", "OBJ1", "OBJ0", "OBJX", "ARR", "STR", "H", "T"}

\* pieces that may stand inside a JSON string literal
StringSafe == {"FENCE", "json", " ", "txt", "7", "ARR"}

TaskA == [description |-> <<"A">>, tool_type |-> "bash"]
TaskB == [description |-> <<"B">>, tool_type |-> "general"]
TaskA2 == [description |-> <<"A">>, tool_type |-> "general"]   \* the description of TaskA again
TaskNoType == [description |-> <<"B">>]                        \* an entry without "tool_type"

\* pieces that are one JSON value.  Besides those of Pieces:
\*   "OBJ2"  {"tasks": [TaskA, TaskB]}      "OBJ3"  {"tasks": [TaskA, TaskB, TaskA2]}
\*   "OBJM"  {"tasks": [TaskA, TaskNoType]}
\*   "OLD0", "OLD1", "OLD2", "OLDD"  the format src/planning.py asks for:
\*   {"tasks": []}, {"tasks": ["A"]}, {"tasks": ["A", "B"]}, {"tasks": ["A", "A"]}
ValuePieces == {"OBJ1", "OBJ0", "OBJX", "ARR", "STR", "OBJ2", "OBJ3", "OBJM",
                "OLD0", "OLD1", "OLD2", "OLDD"}

\* str.strip()
RECURSIVE LStrip(_)
LStrip(s) == IF s # <<>> /\ Head(s) = " " THEN LStrip(Tail(s)) ELSE s
RECURSIVE RStrip(_)
RStrip(s) == IF s # <<>> /\ s[Len(s)] = " " THEN RStrip(SubSeq(s, 1, Len(s) - 1)) ELSE s
Strip(s) == RStrip(LStrip(s))

\* positions of the code fences of a text
FencePositions(s) == { i \in 1..Len(s) : s[i] = "FENCE" }
Min(S) == CHOOSE x \in S : \A y \in S : x <= y

\* code_blocks[0] of the re.findall at line 384, or NoBlock when
\* findall returns an empty list: the pieces between the first fence (and a
\* "json" right behind it) and the next fence
NoBlock == <<"<no code block>">>
FirstCodeBlock(s) ==
    IF Cardinality(FencePositions(s)) < 2 THEN NoBlock
    ELSE LET i     == Min(FencePositions(s))
             start == IF s[i + 1] = "json" THEN i + 2 ELSE i + 1
             j     == Min({ k \in FencePositions(s) : k >= start })
         IN  SubSeq(s, start, j - 1)

\* lines 389-390: every fence, with a json right behind it, is removed
RECURSIVE RemoveFences(_)
RemoveFences(s) ==
    IF s = <<>> THEN <<>>
    ELSE IF Head(s) = "FENCE"
         THEN IF Len(s) >= 2 /\ s[2] = "json"
              THEN RemoveFences(SubSeq(s, 3, Len(s)))
              ELSE RemoveFences(Tail(s))
         ELSE <<Head(s)>> \o RemoveFences(Tail(s))

\* lines 380-390: cleaned_content
CleanContent(content) ==
    IF "FENCE" \in { content[i] : i \in 1..Len(content) }
    THEN IF FirstCodeBlock(content) # NoBlock
         THEN Strip(FirstCodeBlock(content))
         ELSE Strip(RemoveFences(content))
    ELSE content

\* json.loads(text): the Python value, or JSONDecodeError
JSONDecodeError == [type |-> "JSONDecodeError"]
JsonLoads(text) ==
    LET s == Strip(text) IN
    IF Len(s) = 1 /\ s[1] \in ValuePieces
    THEN CASE s[1] = "OBJ1" -> [type |-> "dict", haskey |-> TRUE,  tasks |-> <<TaskA>>]
           [] s[1] = "OBJ2" -> [type |-> "dict", haskey |-> TRUE,  tasks |-> <<TaskA, TaskB>>]
           [] s[1] = "OBJ3" -> [type |-> "dict", haskey |-> TRUE,  tasks |-> <<TaskA, TaskB, TaskA2>>]
           [] s[1] = "OBJM" -> [type |-> "dict", haskey |-> TRUE,  tasks |-> <<TaskA, TaskNoType>>]
           [] s[1] = "OLD0" -> [type |-> "dict", haskey |-> TRUE,  tasks |-> <<>>]
           [] s[1] = "OLD1" -> [type |-> "dict", haskey |-> TRUE,  tasks |-> << <<"A">> >>]
           [] s[1] = "OLD2" -> [type |-> "dict", haskey |-> TRUE,  tasks |-> << <<"A">>, <<"B">> >>]
           [] s[1] = "OLDD" -> [type |-> "dict", haskey |-> TRUE,  tasks |-> << <<"A">>, <<"A">> >>]
           [] s[1] = "OBJ0" -> [type |-> "dict", haskey |-> TRUE,  tasks |-> <<>>]
           [] s[1] = "OBJX" -> [type |-> "dict", haskey |-> FALSE, tasks |-> <<>>]
           [] s[1] = "ARR"  -> [type |-> "list"]
           [] s[1] = "STR"  -> [type |-> "str"]
    ELSE IF Len(s) >= 1 /\ \A i \in 1..Len(s) : s[i] = "7"
         THEN [type |-> "int"]
    ELSE IF Len(s) >= 2 /\ s[1] = "H" /\ s[Len(s)] = "T"
            /\ \A i \in 2..(Len(s) - 1) : s[i] \in StringSafe
         THEN [type |-> "dict", haskey |-> TRUE,
               tasks |-> << [description |-> <<"a">> \o SubSeq(s, 2, Len(s) - 1) \o <<"b">>,
                             tool_type |-> "bash"] >>]
    ELSE JSONDecodeError

FallbackTasks(user_request) == << [description |-> user_request, tool_type |-> "general"] >>

Returned(v) == [kind |-> "return", value |-> v]
Raised(e)   == [kind |-> "raise", exc |-> e]

\* mutant of plan_tasks: the except branch returns no task at all
plan_tasks_emptyfallback(content, user_request) ==
    IF content = None THEN Raised("TypeError")
    ELSE LET tasks_data == JsonLoads(CleanContent(content)) IN
         IF tasks_data = JSONDecodeError THEN Returned(<<>>)
         ELSE IF tasks_data.type # "dict" THEN Raised("AttributeError")
         ELSE Returned(IF tasks_data.haskey THEN tasks_data.tasks ELSE <<>>)

\* lines 378-400 once the LM call has returned content
plan_tasks(content, user_request) ==
    IF content = None
    THEN Raised("TypeError")                      \* "FENCE" in None
    ELSE LET tasks_data == JsonLoads(CleanContent(content)) IN
         IF tasks_data = JSONDecodeError
         THEN Returned(FallbackTasks(user_request))
         ELSE IF tasks_data.type # "dict"
              THEN Raised("AttributeError")       \* .get on a list, str or int
              ELSE Returned(IF tasks_data.haskey THEN tasks_data.tasks ELSE <<>>)

(***************************************************************************)
(* Inputs.                                                                 *)
(***************************************************************************)
Queries == { <<"q1">>, <<"q2">> }

\* the three texts of the classification boundary
\* "<u64cd u4f5c u5931 u8d25>: file not found"
Example1 == <<"u64cd", "u4f5c", "u5931", "u8d25", ":", " ", "f", "i", "l", "e", " ",
              "n", "o", "t", " ", "f", "o", "u", "n", "d">>
\* "Successfully copied 3 files"
Example2 == <<"S", "u", "c", "c", "e", "s", "s", "f", "u", "l", "l", "y", " ",
              "c", "o", "p", "i", "e", "d", " ", "3", " ", "f", "i", "l", "e", "s">>
\* "<u4e34 u65f6 u6587 u4ef6>error.log<u5df2 u521b u5efa>"
Example3 == <<"u4e34", "u65f6", "u6587", "u4ef6", "e", "r", "r", "o", "r", ".",
              "l", "o", "g", "u5df2", "u521b", "u5efa">>

\* pieces the classifier inputs are concatenated from: halves and case
\* variants of the English indicators, the nine localized indicators, the
\* first character of one of them, and a harmless word
TextPieces ==
    { <<"e","r","r">>, <<"o","r">>, <<"E","R","R","O","R">>,
      <<"E","x","c","e","p","t","i","o","n">>, <<"F","A","I","L">>, <<"e","d">>,
      <<"d","o","n","e">>, <<"u4e0d">> } \cup ChineseList

ClassifierInputs ==
    { Flatten(ps) : ps \in SeqsUpTo(TextPieces, MaxPieces) }
        \cup {Example1, Example2, Example3}

PlanContents == SeqsUpTo(Pieces, MaxLen) \cup {None}

HistIdle == /\ history_messages = InitialHistory
            /\ command_history = <<>>
            /\ appended = <<>>
ClIdle   == cl_text = <<>> /\ cl_site = 0 /\ cl_verdict = "unset"
PlIdle   == pl_content = <<>> /\ pl_request = <<>> /\ pl_out = [kind |-> "none"]

(***************************************************************************)
(* TaskExecutor: MCPClient.process_query (client.py:101-641).              *)
(*                                                                         *)
(* One action per external call of the run (an LM completion, list_tools,  *)
(* call_tool); the action takes the call's outcome from the environment    *)
(* and runs the code up to the next external call, a return or a raise.    *)
(* pq.branch tells the copy of the retry code the run is in: "s" is the    *)
(* try body entered at line 238, "x" its handler entered at line 461.      *)
(* An LM completion is a text or a tool call (or the call raises).         *)
(***************************************************************************)
LMContents == { <<"answer">> }
ToolTexts  == { Example1, Example2 }
ToolExcs   == { <<"E1">> }
LMError        == <<"LMError">>
ListToolsError == <<"ListToolsError">>
JSONArgsError  == <<"JSONDecodeError">>
ArityError     == <<"TypeError: process_query() takes 2 positional arguments">>

\* outcomes of the external calls
LMPlainOutcomes == { [kind |-> "raise"] } \cup { [kind |-> "text", content |-> c] : c \in LMContents }
LMToolOutcomes  == LMPlainOutcomes \cup { [kind |-> "tool_call", args_ok |-> b] : b \in BOOLEAN }
ToolOutcomes    == { [kind |-> "raise", exc |-> e] : e \in ToolExcs }
                       \cup { [kind |-> "text", text |-> t] : t \in ToolTexts }

\* f"<retry still failed>: {retry_tool_result}"      (lines 321, 523)
RetryStillFailed(text) == <<"RETRY_STILL_FAILED:">> \o text
\* f"<tool call failed repeatedly, last error>: {final_tool_result}"   (lines 387-389, 589-591)
MultiFail(text) == <<"MULTI_FAIL:">> \o text
\* f"<...last error>: {str(last_error)}<please check the arguments>"   (lines 411, 613)
MultiFailCheck(err) == <<"MULTI_FAIL:">> \o err \o <<"PLEASE_CHECK">>
\* f"<task execution failed>: {str(e)}"      (execute_task's handler)
ExecFailed(err) == <<"EXEC_TASK_FAILED:">> \o err

PqIdle == [pc |-> "idle", branch |-> "-", caller |-> "-", query |-> <<>>,
           use_shell |-> FALSE, err |-> <<>>, result |-> <<>>,
           tool_calls |-> 0, all_failed |-> TRUE, lm_calls |-> 0, adds |-> 0,
           hist0 |-> <<>>, tools |-> <<>>, exhausted |-> FALSE,
           plain |-> [seen |-> FALSE, content |-> <<>>, lm_calls |-> 0, tool_calls |-> 0],
           translated |-> <<>>, command |-> <<>>, args |-> <<>>, has_run_bash |-> FALSE,
           offered |-> <<>>, cmd0 |-> <<>>, context |-> <<>>]

\* lines 101-116: the query is recorded, the run starts
process_query_start(caller, query) ==
    /\ pq.pc = "idle"
    /\ command_history' = Append(command_history, query)
    /\ pq' = [PqIdle EXCEPT !.pc = "translate", !.caller = caller, !.query = query,
                            !.hist0 = history_messages, !.cmd0 = command_history]
    /\ UNCHANGED history_messages

\* ---- the ways a step ends
Goto(p, l)   == [p EXCEPT !.pc = l]
GotoB(p, b, l) == [p EXCEPT !.pc = l, !.branch = b]

\* self._add_to_history(query, stored); return returned
Finish(p, stored, returned) ==
    /\ SetSelf(add_to_history(Self, p.query, stored))
    /\ pq' = [p EXCEPT !.pc = "returned", !.result = returned, !.adds = @ + 1]

\* mutant: the turn is recorded under the translated text, not the query
ReturnText_translated(p, text) ==
    /\ SetSelf(add_to_history(Self, <<"translated">> \o p.query, text))
    /\ pq' = [p EXCEPT !.pc = "returned", !.result = text, !.adds = @ + 1]

ReturnText(p, text) == Finish(p, text, text)

\* an exception leaves process_query
RaiseOut(p, e) ==
    /\ pq' = [p EXCEPT !.pc = "raised", !.result = e]
    /\ UNCHANGED <<history_messages, command_history>>

\* the run goes on to its next external call
Continue(p) == pq' = p /\ UNCHANGED <<history_messages, command_history>>

\* the handler at line 461 takes over
ToHandler461(p, e) == Continue([p EXCEPT !.pc = "analysis", !.branch = "x", !.err = e])

\* an exception inside the try bodies of branch "s" reaches the handler at 461;
\* the same statements of branch "x" are not inside any try
Fault(p, e) == IF p.branch = "s" THEN ToHandler461(p, e) ELSE RaiseOut(p, e)

\* the handlers at lines 341 and 543: f"<retry failed>: {str(e)}", one more round
ToFinalRetry(p, e) ==
    Continue([p EXCEPT !.pc = "final_retry_lm", !.err = <<"RETRY_FAILED:">> \o e,
                       !.context = Append(@, <<"RETRY_FAILED:">> \o e)])

\* ghost: retry_messages.append({"role": "tool", "content": <result>, ...})
\* (lines 325-329, 397-401 and 527-531, 599-603)
AppendToolMessage(p, text) == [p EXCEPT !.context = Append(@, text)]

LMCall(p)   == [p EXCEPT !.lm_calls = @ + 1]
\* ghost: a tool-enabled LM call was answered with a plain message
PlainReply(p, out) ==
    [p EXCEPT !.plain = [seen |-> TRUE, content |-> out.content,
                         lm_calls |-> p.lm_calls, tool_calls |-> p.tool_calls]]
ToolCall(p, out) ==
    [p EXCEPT !.tool_calls = @ + 1,
              !.all_failed = @ /\ (out.kind = "raise" \/ classify(247, out.text)),
              \* ghost: the tool invocations of the run, in order
              !.tools = Append(@, [at |-> p.pc, branch |-> p.branch, out |-> out,
                                   lm_calls |-> p.lm_calls])]

\* the classifying site of an attempt
Site(branch, attempt) ==
    CASE attempt = 1 -> 247
      [] attempt = 2 /\ branch = "s" -> 313
      [] attempt = 2 /\ branch = "x" -> 515
      [] attempt = 3 /\ branch = "s" -> 377
      [] attempt = 3 /\ branch = "x" -> 579

\* the replies of the translation LM call:
\*   "ok", "CMD:ls", "CMD:ls -a;use_shell:true", "CMD:ls -a;use_Shell:true"
CMD == <<"C", "M", "D", ":">>
UseShellSep  == <<";", "u", "s", "e", "_", "s", "h", "e", "l", "l", ":">>
UseShellTrue == UseShellSep \o <<"t", "r", "u", "e">>
TranslationContents ==
    { <<"o", "k">>,
      CMD \o <<"l", "s">>,
      CMD \o <<"l", "s", " ", "-", "a">> \o UseShellTrue,
      CMD \o <<"l", "s", " ", "-", "a", ";", "u", "s", "e", "_", "S", "h", "e", "l", "l",
               ":", "t", "r", "u", "e">> }

\* s.split(sep, 1): the parts around the first sep, or s alone
SplitOnce(s, sep) ==
    LET at == { i \in 1..(Len(s) - Len(sep) + 1) : SubSeq(s, i, i + Len(sep) - 1) = sep } IN
    IF at = {} THEN <<s>>
    ELSE << SubSeq(s, 1, Min(at) - 1), SubSeq(s, Min(at) + Len(sep), Len(s)) >>

\* mutant: the use_shell directive is cut off but never honoured
ParseDirective_noshell(translated_content) ==
    LET cmd_parts == Strip(SplitOnce(Strip(SplitOnce(translated_content, CMD)[2]), UseShellSep)[1])
        halves    == SplitOnce(cmd_parts, <<" ">>)
    IN  [command |-> halves[1],
         args |-> IF Len(halves) = 2 THEN halves[2] ELSE <<>>,
         use_shell |-> FALSE]

\* lines 133-150: the command, its arguments and use_shell of a reply that
\* contains CMD:
ParseDirective(translated_content) ==
    LET cmd_parts0 == Strip(SplitOnce(translated_content, CMD)[2])
        use_shell  == Contains(Lower(cmd_parts0), UseShellTrue)
        cmd_parts  == IF use_shell THEN Strip(SplitOnce(cmd_parts0, UseShellSep)[1])
                      ELSE cmd_parts0
        halves     == SplitOnce(cmd_parts, <<" ">>)
    IN  [command |-> halves[1],
         args |-> IF Len(halves) = 2 THEN halves[2] ELSE <<>>,
         use_shell |-> use_shell]

\* the run leaves the translate-to-shell path for the general tool selection
FallThrough(p) ==
    [p EXCEPT !.pc = "list_tools", !.translated = <<>>, !.command = <<>>, !.args = <<>>,
              !.use_shell = FALSE, !.has_run_bash = FALSE]

\* lines 118-150: the translation LM call and the CMD: directive
Translate ==
    /\ pq.pc = "translate"
    /\ \E out \in { [kind |-> "raise"] }
                    \cup { [kind |-> "text", content |-> c] : c \in TranslationContents } :
         LET p == LMCall(pq) IN
         IF out.kind = "raise" THEN RaiseOut(p, LMError)
         ELSE IF Contains(out.content, CMD)
              THEN LET d == ParseDirective(out.content) IN
                   Continue([p EXCEPT !.pc = "auto_list_tools", !.translated = out.content,
                                      !.command = d.command, !.args = d.args,
                                      !.use_shell = d.use_shell])
              ELSE Continue(Goto(p, "list_tools"))
    /\ UNCHANGED <<session, orch>>
    /\ UNCHANGED smallVars

\* lines 153-173, 190-199: list_tools of the auto-run path, inside the try
AutoListTools ==
    /\ pq.pc = "auto_list_tools"
    /\ \E out \in {"raise", "tools with run_bash", "tools without run_bash"} :
         IF out = "tools with run_bash"
         THEN Continue([pq EXCEPT !.pc = "auto_run_bash", !.has_run_bash = TRUE])
         ELSE Continue(FallThrough(pq))
    /\ UNCHANGED <<session, orch>>
    /\ UNCHANGED smallVars

\* lines 174-189, 193-199: run_bash is called directly; its text is the result
AutoRunBash ==
    /\ pq.pc = "auto_run_bash"
    /\ \E out \in ToolOutcomes :
         LET p == ToolCall(pq, out) IN
         IF out.kind = "raise" THEN Continue(FallThrough(p))
         ELSE ReturnText(p, out.text)
    /\ UNCHANGED <<session, orch>>
    /\ UNCHANGED smallVars

\* what self.session.list_tools() answers: the tools of the server the
\* MCPClient is connected to, under their own names
SessionTools == << <<"r", "u", "n">>, <<"l", "s">> >>

\* lines 207-220: available_tools is made of the session's whole tool list
ListTools ==
    /\ pq.pc = "list_tools"
    /\ \E raised \in BOOLEAN :
         IF raised THEN RaiseOut(pq, ListToolsError)
         ELSE Continue([pq EXCEPT !.pc = "select", !.offered = SessionTools])
    /\ UNCHANGED <<session, orch>>
    /\ UNCHANGED smallVars

\* lines 222-235, 638-641: the tool-selection LM call of attempt 1
SelectTool ==
    /\ pq.pc = "select"
    /\ \E out \in LMToolOutcomes :
         LET p == LMCall(pq) IN
         CASE out.kind = "raise" -> RaiseOut(p, LMError)
           [] out.kind = "text" -> ReturnText(PlainReply(p, out), out.content)
           [] out.kind = "tool_call" ->
                IF out.args_ok THEN Continue(GotoB(p, "s", "call1"))
                ELSE RaiseOut(p, JSONArgsError)
    /\ UNCHANGED <<session, orch>>
    /\ UNCHANGED smallVars

\* lines 238-255, 461-463: attempt 1
Call1 ==
    /\ pq.pc = "call1"
    /\ \E out \in ToolOutcomes :
         LET p == ToolCall(pq, out) IN
         IF out.kind = "raise" THEN ToHandler461(p, out.exc)
         ELSE IF classify(Site("s", 1), out.text)
              THEN Continue([p EXCEPT !.pc = "analysis", !.err = out.text])
              ELSE Continue(Goto(p, "final1"))
    /\ UNCHANGED <<session, orch>>
    /\ UNCHANGED smallVars

\* lines 436-460: success after attempt 1
Final1 ==
    /\ pq.pc = "final1"
    /\ \E out \in LMPlainOutcomes :
         LET p == LMCall(pq) IN
         IF out.kind = "raise" THEN Fault(p, LMError) ELSE ReturnText(p, out.content)
    /\ UNCHANGED <<session, orch>>
    /\ UNCHANGED smallVars

\* what the error-analysis LM call answers
AnalysisTexts == { <<"cause-1">>, <<"cause-2">> }

\* mutant: the analysis is handed to the corrective call
after_analysis_fed(p, analysis_result) ==
    [p EXCEPT !.pc = "retry_lm", !.context = <<p.err, analysis_result>>]

\* lines 269-290 and 477-490: analysis_result is printed; retry_messages
\* (exception_messages) is made of a copy of current_messages, the model's
\* message and messages around the error text.  context is a ghost: the
\* texts of the run that the messages of the later LM calls embed
after_analysis(p, analysis_result) ==
    [p EXCEPT !.pc = "retry_lm", !.context = <<p.err>>]

\* lines 258-290 and 466-490: the error-analysis LM call, printed only
Analysis ==
    /\ pq.pc = "analysis"
    /\ \E out \in { [kind |-> "raise"] }
                    \cup { [kind |-> "text", content |-> c] : c \in AnalysisTexts } :
         LET p == LMCall(pq) IN
         IF out.kind = "raise" THEN Fault(p, LMError)
         ELSE Continue(after_analysis(p, out.content))
    /\ UNCHANGED <<session, orch>>
    /\ UNCHANGED smallVars

\* lines 272-304, 428-434 and 480-506, 630-636: the first corrective LM call
RetryLM ==
    /\ pq.pc = "retry_lm"
    /\ \E out \in LMToolOutcomes :
         LET p == LMCall(pq) IN
         CASE out.kind = "raise" -> Fault(p, LMError)
           [] out.kind = "text" -> ReturnText(PlainReply(p, out), out.content)
           [] out.kind = "tool_call" ->
                IF out.args_ok THEN Continue(Goto(p, "call2")) ELSE Fault(p, JSONArgsError)
    /\ UNCHANGED <<session, orch>>
    /\ UNCHANGED smallVars

\* lines 308-321, 341 and 510-523, 543: attempt 2
Call2 ==
    /\ pq.pc = "call2"
    /\ \E out \in ToolOutcomes :
         LET p == ToolCall(pq, out) IN
         IF out.kind = "raise" THEN ToFinalRetry(p, out.exc)
         ELSE IF classify(Site(p.branch, 2), out.text)
              THEN ToFinalRetry(p, RetryStillFailed(out.text))
              ELSE Continue(Goto(AppendToolMessage(p, out.text), "final2"))
    /\ UNCHANGED <<session, orch>>
    /\ UNCHANGED smallVars

\* lines 323-340 and 525-542: success after attempt 2, still inside the try
Final2 ==
    /\ pq.pc = "final2"
    /\ \E out \in LMPlainOutcomes :
         LET p == LMCall(pq) IN
         IF out.kind = "raise" THEN ToFinalRetry(p, LMError) ELSE ReturnText(p, out.content)
    /\ UNCHANGED <<session, orch>>
    /\ UNCHANGED smallVars

\* lines 343-368 and 545-570: the second corrective LM call
FinalRetryLM ==
    /\ pq.pc = "final_retry_lm"
    /\ \E out \in LMToolOutcomes :
         LET p == LMCall(pq) IN
         CASE out.kind = "raise" -> Fault(p, LMError)
           [] out.kind = "text" -> Continue(Goto(PlainReply(p, out), "error_response"))
           [] out.kind = "tool_call" ->
                IF out.args_ok THEN Continue(Goto(p, "call3")) ELSE Fault(p, JSONArgsError)
    /\ UNCHANGED <<session, orch>>
    /\ UNCHANGED smallVars

\* mutant: the report carries the error of the attempt before
final_error_stale(p, out) == MultiFail(p.err)

\* the failure report of a failed attempt 3: lines 387-389 and 410-416
\* (589-591 and 612-618 in the handler)
final_error(p, out) ==
    IF out.kind = "raise" THEN MultiFailCheck(out.exc) ELSE MultiFail(out.text)

\* lines 372-389, 410-416 and 574-591, 612-618: attempt 3
Call3 ==
    /\ pq.pc = "call3"
    /\ \E out \in ToolOutcomes :
         LET p == ToolCall(pq, out) IN
         IF out.kind = "raise" \/ classify(Site(p.branch, 3), out.text)
         THEN ReturnText([p EXCEPT !.exhausted = TRUE], final_error(p, out))
         ELSE Continue(Goto(AppendToolMessage(p, out.text), "final3"))
    /\ UNCHANGED <<session, orch>>
    /\ UNCHANGED smallVars

\* lines 391-416 and 593-618: success after attempt 3, still inside the try
Final3 ==
    /\ pq.pc = "final3"
    /\ \E out \in LMPlainOutcomes :
         LET p == LMCall(pq) IN
         IF out.kind = "raise" THEN ReturnText(p, MultiFailCheck(LMError))
         ELSE ReturnText(p, out.content)
    /\ UNCHANGED <<session, orch>>
    /\ UNCHANGED smallVars

\* lines 418-427 and 620-629: the model gave no tool call at the second retry
ErrorResponse ==
    /\ pq.pc = "error_response"
    /\ \E out \in LMPlainOutcomes :
         LET p == LMCall(pq) IN
         IF out.kind = "raise" THEN Fault(p, LMError) ELSE ReturnText(p, out.content)
    /\ UNCHANGED <<session, orch>>
    /\ UNCHANGED smallVars

(***************************************************************************)
(* src/planning.py: the first TaskPlanner, whose tasks are plain texts and *)
(* whose execute_task calls process_query(task).                           *)
(***************************************************************************)
\* the quoted strings inside the first [...] of a piece, and whether it has one
HasBracket(piece) == piece \in {"OLD0", "OLD1", "OLD2", "OLDD", "ARR"}
QuotedInBracket(piece) ==
    CASE piece = "OLD1" -> << <<"A">> >>
      [] piece = "OLD2" -> << <<"A">>, <<"B">> >>
      [] piece = "OLDD" -> << <<"A">>, <<"A">> >>
      [] OTHER -> <<>>
\* the quoted strings of a piece that are none of tasks, task, steps, step
QuotedFiltered(piece) ==
    CASE piece = "STR" -> << <<"s">> >>
      [] OTHER -> QuotedInBracket(piece)

\* src/planning.py:84-106 once the LM call has returned content; content is
\* None or made of the pieces FENCE, json, blank, txt, 7, OLD0, OLD1, OLD2,
\* OLDD, ARR, STR
old_plan_tasks(content, user_request) ==
    IF content = None THEN Raised("TypeError")
    ELSE LET tasks_data == JsonLoads(content) IN
         IF tasks_data # JSONDecodeError
         THEN IF tasks_data.type # "dict" THEN Raised("AttributeError")
              ELSE Returned(IF tasks_data.haskey THEN tasks_data.tasks ELSE <<>>)
         ELSE LET br == { i \in 1..Len(content) : HasBracket(content[i]) }
                  all == Flatten([i \in 1..Len(content) |-> QuotedFiltered(content[i])])
              IN  IF br # {} /\ QuotedInBracket(content[Min(br)]) # <<>>
                  THEN Returned(QuotedInBracket(content[Min(br)]))
                  ELSE IF all # <<>> THEN Returned(all)
                  ELSE Returned(<<user_request>>)


(***************************************************************************)
(* ToolRegistry: TaskPlanner.connect_to_server and the tool matching of    *)
(* execute_task (src/client/planning.py).  Names are sequences of          *)
(* characters.  The configuration is the list of the items of              *)
(* server_config["servers"], in dict order; every path exists.             *)
(***************************************************************************)
ServerNames == { <<"a">>, <<"a", ".", "c">>, <<"C">> }
\* the bare tool names, in the order a server lists them
BareOrder   == << <<"e">>, <<"c", ".", "e">>, <<"a">> >>
BareNames   == { BareOrder[k] : k \in 1..Len(BareOrder) }
General     == <<"g", "e", "n", "e", "r", "a", "l">>
ToolTypes   == { General, <<"a">>, <<"c">>, <<"A">>, <<"c", ".", "e">>, <<"x">>, <<>> }

\* the elements of a sequence are pairwise different
NoDuplicates(seq) == \A i, j \in 1..Len(seq) : seq[i] = seq[j] => i = j

\* the tools of a list follow the listing order, none twice
Listed(ts) ==
    \A i, j \in 1..Len(ts) :
      i < j => \E a, b \in 1..Len(BareOrder) : a < b /\ BareOrder[a] = ts[i] /\ BareOrder[b] = ts[j]

\* what one server is: its name, its flag, whether connecting to it and
\* listing its tools works, the bare names of its tools
ServerEntries ==
    [name : ServerNames, enabled : BOOLEAN, connects : BOOLEAN,
     tools : { ts \in SeqsUpTo(BareNames, MaxTools) : Listed(ts) }]

Configs ==
    { c \in SeqsUpTo(ServerEntries, MaxServers) :
        NoDuplicates([k \in 1..Len(c) |-> c[k].name]) }

\* f"{server_name}.{tool.name}"      (line 448)
QualifiedName(server_name, bare) == server_name \o <<".">> \o bare

\* _update_server_config(server_name, "enabled", value)   (lines 277-291)
update_server_config(config, server_name, value) ==
    [k \in 1..Len(config) |->
       IF config[k].name = server_name THEN [config[k] EXCEPT !.enabled = value]
       ELSE config[k]]

RECURSIVE SelectEnabled(_)
SelectEnabled(config) ==
    IF config = <<>> THEN <<>>
    ELSE IF Head(config).enabled THEN <<Head(config)>> \o SelectEnabled(Tail(config))
    ELSE SelectEnabled(Tail(config))

\* lines 406-425: the enabled servers; when there is none, every server that
\* update_server_paths discovers
enabled_servers(config) ==
    IF SelectEnabled(config) # <<>> THEN SelectEnabled(config) ELSE config

\* lines 431-462: the loop over the servers; a server that fails is skipped
RECURSIVE ConnectLoop(_, _)
ConnectLoop(servers, acc) ==
    IF servers = <<>> THEN acc
    ELSE LET sv == Head(servers)
             server_tools == [k \in 1..Len(sv.tools) |-> QualifiedName(sv.name, sv.tools[k])]
         IN  IF sv.connects
             THEN ConnectLoop(Tail(servers),
                    [connected_servers |-> Append(acc.connected_servers,
                                                  [name |-> sv.name, tools |-> server_tools]),
                     all_tools |-> acc.all_tools \o server_tools])
             ELSE ConnectLoop(Tail(servers), acc)

\* mutant: all_tools is extended before the connection is known to work
connect_to_server_eager(self, config) ==
    LET done == ConnectLoop([k \in 1..Len(enabled_servers(config)) |->
                               [enabled_servers(config)[k] EXCEPT !.connects = TRUE]],
                            [connected_servers |-> <<>>, all_tools |-> <<>>])
        real == ConnectLoop(enabled_servers(config),
                            [connected_servers |-> <<>>, all_tools |-> <<>>])
    IN  IF real.connected_servers = <<>> THEN [self |-> self, ret |-> FALSE]
        ELSE [self |-> [connected_servers |-> real.connected_servers,
                        all_tools |-> done.all_tools], ret |-> TRUE]

\* connect_to_server (lines 402-492): the planner's fields after the call and
\* the value returned
connect_to_server(self, config) ==
    LET done == ConnectLoop(enabled_servers(config),
                            [connected_servers |-> <<>>, all_tools |-> <<>>])
    IN  IF enabled_servers(config) = <<>> \/ done.connected_servers = <<>>
        THEN [self |-> self, ret |-> FALSE]
        ELSE [self |-> done, ret |-> TRUE]

\* tool.name.split('.')[0] if '.' in tool.name else ""      (line 517)
server_name_of(name) ==
    LET dots == { i \in 1..Len(name) : name[i] = "." } IN
    IF dots = {} THEN <<>> ELSE SubSeq(name, 1, Min(dots) - 1)

\* mutant: the names are compared as they are written
tool_matches_cased(name, tool_type) ==
    \/ server_name_of(name) = tool_type
    \/ Contains(name, tool_type)

\* the test of line 518
tool_matches(name, tool_type) ==
    \/ Lower(server_name_of(name)) = Lower(tool_type)
    \/ Contains(Lower(name), Lower(tool_type))

RECURSIVE MatchLoop(_, _)
MatchLoop(tools, tool_type) ==
    IF tools = <<>> THEN <<>>
    ELSE IF tool_matches(Head(tools), tool_type)
         THEN <<Head(tools)>> \o MatchLoop(Tail(tools), tool_type)
         ELSE MatchLoop(Tail(tools), tool_type)

\* lines 509-523: suitable_tools
suitable_tools(all_tools, tool_type) ==
    LET found == IF tool_type # General THEN MatchLoop(all_tools, tool_type) ELSE <<>> IN
    IF found = <<>> THEN all_tools ELSE found

\* the attributes of an MCPClient object: those __init__ and connect_to_server
\* assign (src/client/client.py lines 20-41 and 86-87)
MCPClientAttrs ==
    {"openai_api_key", "base_url", "model", "client", "session", "exit_stack",
     "history_messages", "command_history", "max_history_length", "stdio", "write"}
hasattr(attr) == attr \in MCPClientAttrs

\* the connection an MCPClient opened: the stdio transport and the session
\* its exit stack holds, and the server process behind them
NewConnection(server_name) == [server |-> server_name, terminated |-> FALSE, closed |-> FALSE]

\* _cleanup_client (lines 608-656): the process is terminated when the client
\* has a process, the channel is closed when the client has a ws; the exit
\* stack of the client is not touched
cleanup_client(conn) ==
    [conn EXCEPT !.terminated = @ \/ hasattr("process"),
                 !.closed     = @ \/ hasattr("ws")]

\* TaskPlanner.cleanup (lines 587-606): gathers _cleanup_client over the
\* clients of connected_servers, then empties connected_servers
cleanup(connected_servers, opened) ==
    IF connected_servers = <<>> THEN opened
    ELSE [k \in 1..Len(opened) |->
            IF \E j \in 1..Len(connected_servers) :
                 connected_servers[j].name = opened[k].server
            THEN cleanup_client(opened[k]) ELSE opened[k]]

RegIdle == [pc |-> "idle", config |-> <<>>, connected_servers |-> <<>>, all_tools |-> <<>>,
            before |-> <<>>, ret |-> FALSE, calls |-> 0, tool_type |-> <<>>, suitable |-> <<>>,
            opened |-> <<>>]

(***************************************************************************)
(* Concurrent execute_task runs on one TaskPlanner (the planner of         *)
(* src/main.py is a module global shared by all requests).  A run gives    *)
(* way to another only at an await: in connect_to_server these are         *)
(* client.connect_to_server(...) and client.session.list_tools() of every  *)
(* server of the loop (lines 440 and 443).                                 *)
(***************************************************************************)
\* the concurrent runs
LazyRuns == 1..MaxRequests
\* the names of enabled_servers, in dict order
LazyServers == << <<"a">>, <<"C">> >>
\* how one round of the loop at lines 432-461 ends: both awaits return, the
\* connection fails, or the connection is made and list_tools() raises
ConnectOutcomes == {"ok", "connect_fails", "list_tools_fails"}

LazyRunIdle == [pc |-> "idle", k |-> 0, connected_servers |-> <<>>]
LazyIdle == [connected_servers |-> <<>>, opened |-> <<>>,
             run |-> [r \in LazyRuns |-> LazyRunIdle]]

\* "if not hasattr(self, 'connected_servers') or not self.connected_servers"
\* (line 498), then connect_to_server up to its first await
execute_task_start(l, r) ==
    IF l.connected_servers = <<>>
    THEN [l EXCEPT !.run[r] = [pc |-> "connecting", k |-> 1, connected_servers |-> <<>>]]
    ELSE [l EXCEPT !.run[r].pc = "process_query"]

\* lines 464-476: "if not connected_servers: return False", else
\* self.connected_servers = connected_servers
connect_assign(l, r, connected_servers) ==
    IF connected_servers = <<>>
    THEN [l EXCEPT !.run[r] = [pc |-> "done", k |-> 0, connected_servers |-> <<>>]]
    ELSE [l EXCEPT !.connected_servers = connected_servers,
                   !.run[r] = [pc |-> "process_query", k |-> 0, connected_servers |-> <<>>]]

\* one round of the loop at lines 432-461 for server k of run r; a client is
\* the place of its connection in opened
connect_round(l, r, outcome) ==
    LET k    == l.run[r].k
        name == LazyServers[k]
        op   == IF outcome = "connect_fails" THEN l.opened
                ELSE Append(l.opened, NewConnection(name))
        cs   == IF outcome = "ok"
                THEN Append(l.run[r].connected_servers, [name |-> name, client |-> Len(op)])
                ELSE l.run[r].connected_servers
        l1   == [l EXCEPT !.opened = op]
    IN  IF k < Len(LazyServers)
        THEN [l1 EXCEPT !.run[r].k = k + 1, !.run[r].connected_servers = cs]
        ELSE connect_assign(l1, r, cs)


(***************************************************************************)
(* The bash server: run_bash and execute_bash_command                      *)
(* (src/servers/bash_server.py).  A subprocess is a record of the process  *)
(* table; a line feed is the character "LF".                               *)
(***************************************************************************)
\* execute_bash_command(..., timeout: int = 30) and communicate(timeout=30)
timeout == 30

RECURSIVE Digits(_)
Digits(n) == IF n < 10 THEN <<ToString(n)>> ELSE Digits(n \div 10) \o <<ToString(n % 10)>>

RECURSIVE Join(_, _)
Join(parts, sep) ==
    IF parts = <<>> THEN <<>>
    ELSE IF Len(parts) = 1 THEN parts[1]
    ELSE parts[1] \o sep \o Join(Tail(parts), sep)

ErrorPrefix == <<"u9519", "u8bef", ":", " ">>
\* the text of lines 153 and 276
TimeoutMessage(seconds) ==
    ErrorPrefix \o <<"u547d", "u4ee4", "u6267", "u884c", "u8d85", "u65f6", " ", "(">>
                \o Digits(seconds) \o <<"u79d2", ")">>
\* line 178
NoCommandMessage == ErrorPrefix \o <<"u672a", "u6307", "u5b9a", "u547d", "u4ee4">>
GuiStarted == <<"GUI_STARTED">>
\* line 300: the text of a graphical command that could not be started
GuiFailed(e) == <<"u542f", "u52a8", "u56fe", "u5f62", "u754c", "u9762", "u547d", "u4ee4",
                  "u5931", "u8d25", ":", " ">> \o e
PopenErrors == { <<"E", "N", "O", "E", "N", "T">> }

\* lines 263-273 and 305-315: the text made of stdout, stderr and the status
FormatOutput(status, stdout, stderr) ==
    LET out  == IF stdout # <<>>
                THEN << <<"u6807", "u51c6", "u8f93", "u51fa", ":", "LF">> \o stdout >> ELSE <<>>
        err  == IF stderr # <<>>
                THEN << <<"u6807", "u51c6", "u9519", "u8bef", ":", "LF">> \o stderr >> ELSE <<>>
        status_msg == IF status = 0 THEN <<"u6210", "u529f">> ELSE <<"u5931", "u8d25">>
        last == <<"u547d", "u4ee4", "u6267", "u884c">> \o status_msg
                  \o <<"uff0c", "u9000", "u51fa", "u7801", ":", " ">> \o Digits(status)
    IN  Join(out \o err \o <<last>>, <<"LF", "LF">>)

\* what a subprocess does once started: how long it runs, what it writes and
\* the status it exits with
Runtimes == { 1, timeout, timeout + 1 }
Stdouts  == { <<>>, <<"o", "k">> }
Stderrs  == { <<>>, <<"w">> }
ReturnCodes == { 0, 1 }

\* lines 130-161: Popen, communicate(timeout) and the two handlers of
\* execute_bash_command; the process and the result dict
execute_bash_command(proc, popen_error, runtime, returncode, stdout, stderr) ==
    IF popen_error # <<>>
    THEN [proc |-> proc,
          result |-> [status |-> 1, stdout |-> <<>>, stderr |-> ErrorPrefix \o popen_error]]
    ELSE IF runtime <= timeout
    THEN [proc |-> [proc EXCEPT !.state = "exited"],
          result |-> [status |-> returncode, stdout |-> stdout, stderr |-> stderr]]
    ELSE [proc |-> [proc EXCEPT !.state = "killed", !.timed_out = TRUE],
          result |-> [status |-> 1, stdout |-> <<>>, stderr |-> TimeoutMessage(timeout)]]

\* lines 250-278: the shell mode of run_bash; the process and the text
run_bash_shell(proc, popen_error, runtime, returncode, stdout, stderr) ==
    IF popen_error # <<>>
    THEN [proc |-> proc, text |-> ErrorPrefix \o popen_error]
    ELSE IF runtime <= timeout
    THEN [proc |-> [proc EXCEPT !.state = "exited"],
          text |-> FormatOutput(returncode, stdout, stderr)]
    ELSE [proc |-> [proc EXCEPT !.timed_out = TRUE], text |-> TimeoutMessage(30)]

\* lines 303-316: the non-shell mode of run_bash
run_bash_exec(proc, popen_error, runtime, returncode, stdout, stderr) ==
    LET r == execute_bash_command(proc, popen_error, runtime, returncode, stdout, stderr) IN
    [proc |-> r.proc, text |-> FormatOutput(r.result.status, r.result.stdout, r.result.stderr)]

NewProcess(use_shell, detached) ==
    [shell |-> use_shell, detached |-> detached, state |-> "running", timed_out |-> FALSE]
NoProcess == [shell |-> FALSE, detached |-> FALSE, state |-> "none", timed_out |-> FALSE]

\* ghost: how the command of a call ended, and what it wrote
NoCommand == [kind |-> "none", status |-> 0, stdout |-> <<>>, stderr |-> <<>>]
Ended(kind, status, stdout, stderr) ==
    [kind |-> kind, status |-> status, stdout |-> stdout, stderr |-> stderr]

BashIdle == [pc |-> "idle", calls |-> 0, use_shell |-> FALSE, procs |-> <<>>,
             text |-> <<>>, timed_out |-> FALSE, last |-> NoCommand]


(***************************************************************************)
(* stream_completion (src/main.py lines 176-245).  The run is the task     *)
(* execute() created at line 224; between two points where it really       *)
(* waits it runs without giving the event loop back, the LM calls being    *)
(* blocking calls.  Its only real wait is connect_to_server, awaited by    *)
(* execute_task when no server is connected.  Every print is two writes to *)
(* the captured stdout: the text, then a line feed.                        *)
(***************************************************************************)
StreamIdle == [pc |-> "idle", run |-> "none", n |-> 0, i |-> 0, connected |-> FALSE,
               queue |-> <<>>, events |-> <<>>, late |-> 0]

\* OutputCapture.write (lines 31-35) with the callback of line 183: the text
\* is queued while the generator is subscribed
write(s, text) ==
    IF s.pc = "waiting" THEN [s EXCEPT !.queue = Append(@, text)]
    ELSE [s EXCEPT !.late = @ + 1]
print(s, text) == write(write(s, text), <<"LF">>)

\* output.split('\n') without the empty chunks (lines 232-233)
RECURSIVE Chunks(_, _)
Chunks(output, cur) ==
    IF output = <<>> THEN (IF cur = <<>> THEN <<>> ELSE <<cur>>)
    ELSE IF Head(output) = "LF"
         THEN (IF cur = <<>> THEN <<>> ELSE <<cur>>) \o Chunks(Tail(output), <<>>)
         ELSE Chunks(Tail(output), Append(cur, Head(output)))

ContentEvents(output) ==
    LET cs == Chunks(output, <<>>) IN
    [k \in 1..Len(cs) |-> [kind |-> "content", text |-> cs[k] \o <<"LF">>]]

\* lines 213-217: summarize_results and the two prints; the run is over
StreamSummarize(s) ==
    [print(print(print(s, <<"LF", "summarizing">>), <<"LF", "summary:">>), <<"the summary">>)
       EXCEPT !.run = "finished"]

\* execute_tasks from task i on (client/planning.py lines 545-555), up to
\* the next real wait: with a server connected execute_task prints the task
\* and its tool type and comes back without waiting; without one it awaits
\* connect_to_server, which prints before it waits
RECURSIVE StreamExecuteFrom(_, _)
StreamExecuteFrom(s, i) ==
    IF i > s.n THEN StreamSummarize(s)
    ELSE LET s1 == print(s, <<"LF", "executing task", ToString(i)>>) IN
         IF ~s1.connected
         THEN [print(s1, <<"LF", "connecting">>) EXCEPT !.run = "connecting", !.i = i]
         ELSE LET s2 == print(print(s1, <<"LF", "task", ToString(i)>>), <<"tool type">>)
              IN  StreamExecuteFrom(print(s2, <<"LF", "status", ToString(i)>>), i + 1)

\* execute() from its start (lines 194-221)
StreamExecute(s, raises, plan) ==
    LET s1 == print(s, <<"LF", "analysing">>) IN
    IF raises
    THEN [write(s1, <<"LF", "error", "LF", "traceback">>) EXCEPT !.run = "finished"]
    ELSE IF plan = 0
    THEN [write(s1, <<"LF", "no tasks">>) EXCEPT !.run = "finished"]
    ELSE StreamExecuteFrom(print(print([s1 EXCEPT !.n = plan], <<"LF", "task list">>),
                                 <<"LF", "total">>), 1)


(***************************************************************************)
(* Orchestrator: execute_tasks, execute_task, summarize_results and the    *)
(* entry points.  orch.binding names the TaskPlanner in use:               *)
(*   "client_planning"  src/client/planning.py (imported by src/main.py);  *)
(*                      src/client/task.py has the same code               *)
(*   "planning"         src/planning.py                                    *)
(***************************************************************************)
Entries == {"http", "stream", "cli", "interactive", "planning_main"}
Binding(entry) == IF entry = "planning_main" THEN "planning" ELSE "client_planning"

\* the LM replies the planner is given in the pipeline specification
PlannerReplies(binding) ==
    IF binding = "planning"
    THEN { <<"OLD0">>, <<"OLD1">>, <<"OLD2">>, <<"OLDD">>, <<"txt">>, <<"ARR">>, None,
           <<"FENCE", "json", "OLD2", "FENCE">> }
    ELSE { <<"OBJ0">>, <<"OBJ1">>, <<"OBJ2">>, <<"OBJ3">>, <<"OBJM">>, <<"OBJX">>,
           <<"txt">>, <<"ARR">>, None, <<"FENCE", "json", "OBJ2", "FENCE">> }

PlanOf(binding, content, user_request) ==
    IF binding = "planning" THEN old_plan_tasks(content, user_request)
    ELSE plan_tasks(content, user_request)

\* task['description'] and task['tool_type'] both exist
HasKeys(binding, task) ==
    binding = "planning" \/ {"description", "tool_type"} \subseteq DOMAIN task
Description(binding, task) == IF binding = "planning" THEN task ELSE task.description

\* a Python dict as the list of its (key, value) items in insertion order
DictKeys(d) == [k \in 1..Len(d) |-> d[k][1]]
DictHas(d, key) == \E k \in 1..Len(d) : d[k][1] = key
DictGet(d, key) == d[CHOOSE k \in 1..Len(d) : d[k][1] = key][2]
\* d[key] = value
DictSet(d, key, value) ==
    IF DictHas(d, key)
    THEN [k \in 1..Len(d) |-> IF d[k][1] = key THEN <<key, value>> ELSE d[k]]
    ELSE Append(d, <<key, value>>)

\* the fixed message of an entry point when no task was extracted; the two
\* interactive loops say "from your request" where the others say "from the
\* request"
NoTasksMessage(entry) ==
    IF entry \in {"interactive", "planning_main"}
    THEN <<"NO_TASKS_EXTRACTED_FROM_YOUR_REQUEST">>
    ELSE <<"NO_TASKS_EXTRACTED_FROM_THE_REQUEST">>
CancelledMessage == <<"CANCELLED">>

OrchIdle == [pc |-> "idle", entry |-> "-", binding |-> "-", request |-> <<>>,
             tasks |-> <<>>, i |-> 0, results |-> <<>>, output |-> <<>>,
             connected |-> TRUE, planned |-> "-",
             started |-> <<>>, stored |-> {}, et |-> "-", exec_log |-> <<>>,
             summaries |-> 0, prompt |-> <<>>,
             hist0 |-> <<>>, cmd0 |-> <<>>]

(***************************************************************************)
(* Concurrent runs on one MCPClient.  The LM calls of process_query are    *)
(* synchronous (self.client.chat.completions.create is not awaited); a run *)
(* gives way only at "await self.session.list_tools()" (line 211) and at   *)
(* "await self.session.call_tool(...)" (lines 240, 309, 373, 511, 575).    *)
(* A run is started directly (process_query(query)) or by an HTTP request  *)
(* on the shared planner of src/main.py, whose provider is connected.      *)
(***************************************************************************)
ParRuns == {1, 2}
\* every run has the same query and is given the same reply: the turns of
\* the history are told apart by their places
ParQuery == <<"q">>
ParReply == <<"reply">>

ParRunIdle == [pc |-> "idle", entry |-> "-", attempt |-> 0, entered |-> FALSE,
               overlapped |-> FALSE]
ParIdle == [calls |-> 0, run |-> [r \in ParRuns |-> ParRunIdle]]

\* the runs that hold a snapshot of the history and have not appended yet
BetweenSnapshotAndAppend(p, r) == p.run[r].pc \in {"list_tools", "call_tool"}

\* ghost: _add_to_history of run r happens while other runs are between their
\* "current_messages = self.history_messages.copy()" and their own append
par_appended(p, r) ==
    [p EXCEPT !.run = [q \in ParRuns |->
        IF q = r THEN [p.run[q] EXCEPT !.pc = "done"]
        ELSE IF BetweenSnapshotAndAppend(p, q) THEN [p.run[q] EXCEPT !.overlapped = TRUE]
        ELSE p.run[q]]]

\* chat_completions without stream (src/main.py:133-160) for a request of one
\* well-formed task: plan_tasks, execute_tasks and summarize_results have no
\* await that suspends; execute_task calls process_query with three
\* arguments (client/planning.py:526-530), the TypeError is caught at 532 and
\* process_query is not entered
http_request(p, r) ==
    [p EXCEPT !.calls = @ + 1,
              !.run[r] = [ParRunIdle EXCEPT !.pc = "done", !.entry = "http"]]

(***************************************************************************)
(* Streaming requests in progress together (src/main.py:26-51, 176-245).   *)
(* sys.stdout is the one OutputCapture of the process; a stream subscribes *)
(* a callback that puts what is written into the stream's own queue.       *)
(***************************************************************************)
\* the streaming requests
StreamIds == {1, 2}
\* what the run of request s prints, in order: the plan, the output of its
\* task, the summary
RunOutput(s) == << [origin |-> s, text |-> "plan"],
                   [origin |-> s, text |-> "task"],
                   [origin |-> s, text |-> "summary"] >>

CaptureIdle == [subscribers |-> {},
                queue  |-> [s \in StreamIds |-> <<>>],
                events |-> [s \in StreamIds |-> <<>>],
                pc     |-> [s \in StreamIds |-> "idle"]]

\* OutputCapture.write (lines 31-35), once per printed text: every
\* subscribed callback is called, and the callback of a stream puts the text
\* into the queue of that stream (lines 183-184)
capture_write(c, texts) ==
    [c EXCEPT !.queue = [s \in StreamIds |->
        IF s \in c.subscribers THEN c.queue[s] \o texts ELSE c.queue[s]]]

ConcIdle == lazy = LazyIdle /\ par = ParIdle /\ output_capture = CaptureIdle

PipeIdle == /\ session = [requests |-> 0]
            /\ pq = PqIdle
            /\ orch = OrchIdle
RunIdle == PipeIdle /\ reg = RegIdle /\ bash = BashIdle /\ stream = StreamIdle /\ ConcIdle

\* the except clause of the entry point: the error is reported and the
\* request ends; main() of src/planning.py has its handler around the whole
\* loop and ends the program
EntryError(o, e) ==
    [o EXCEPT !.pc = IF o.entry = "planning_main" THEN "exited" ELSE "done",
              !.output = <<"ERROR:">> \o e]

\* the text of the next request of the session: every request is a new text
NextQueries == { <<"q", ToString(session.requests + 1)>> }

\* a request arrives at an entry point
Request ==
    /\ orch.pc = "idle" /\ pq.pc = "idle"
    /\ session.requests < MaxRequests
    /\ \E entry \in Entries, request \in NextQueries, connected \in BOOLEAN :
         /\ Binding(entry) = "planning" => connected
         /\ orch' = [OrchIdle EXCEPT !.pc = "plan", !.entry = entry,
                                  !.binding = Binding(entry), !.request = request,
                                  !.connected = connected,
                                  !.hist0 = history_messages, !.cmd0 = command_history]
    /\ session' = [session EXCEPT !.requests = @ + 1]
    /\ UNCHANGED <<pq, history_messages, command_history>>
    /\ UNCHANGED smallVars

\* mutant: the entry point goes on with an empty task list
no_tasks_never(tasks) == FALSE

\* "if not tasks:" of the entry points
no_tasks(tasks) == tasks = <<>>

\* plan_tasks (its LM call and the parsing) and the entry point's test of the
\* task list: main.py:136-140, 198-203, 271-275, 648-652, planning.py:231-235
PlanTasks ==
    /\ orch.pc = "plan"
    /\ \E out \in { [kind |-> "raise"] }
                    \cup { [kind |-> "text", content |-> c] : c \in PlannerReplies(orch.binding) } :
         LET planned == IF out.kind = "raise" THEN Raised(LMError)
                        ELSE PlanOf(orch.binding, out.content, orch.request)
             \* process_query runs the plan asks for beyond the first
             extra == IF planned.kind = "return" /\ orch.binding = "planning"
                         /\ Len(planned.value) > 1
                      THEN Len(planned.value) - 1 ELSE 0
         IN  /\ session.requests + extra <= MaxRequests
             /\ session' = [session EXCEPT !.requests = @ + extra]
             /\ orch' =
               IF planned.kind = "raise"
               THEN [EntryError(orch, IF out.kind = "raise" THEN LMError ELSE <<planned.exc>>)
                       EXCEPT !.planned = "raise"]
               ELSE IF no_tasks(planned.value)
                    THEN [orch EXCEPT !.pc = "done", !.tasks = planned.value,
                                      !.planned = "return",
                                      !.output = NoTasksMessage(orch.entry)]
                    ELSE [orch EXCEPT !.tasks = planned.value, !.planned = "return",
                                      !.pc = IF orch.entry \in {"interactive", "planning_main"}
                                             THEN "confirm" ELSE "execute_tasks"]
    /\ UNCHANGED <<pq, history_messages, command_history>>
    /\ UNCHANGED smallVars

\* main.py:658-662, planning.py:241-245: the interactive modes ask first
Confirm ==
    /\ orch.pc = "confirm"
    /\ \E yes \in BOOLEAN :
         orch' = IF yes THEN [orch EXCEPT !.pc = "execute_tasks"]
                 ELSE [orch EXCEPT !.pc = "done", !.output = CancelledMessage]
    /\ UNCHANGED <<session, pq, history_messages, command_history>>
    /\ UNCHANGED smallVars

\* execute_tasks up to its loop (client/planning.py:537-542): the progress
\* list reads task['description'] and task['tool_type'] of every task
ExecuteTasksBegin ==
    /\ orch.pc = "execute_tasks"
    /\ orch' =
         IF \A k \in 1..Len(orch.tasks) : HasKeys(orch.binding, orch.tasks[k])
         THEN [orch EXCEPT !.pc = "loop", !.i = 1, !.results = <<>>, !.et = "running"]
         ELSE [EntryError(orch, <<"KeyError">>) EXCEPT !.et = "raised"]
    /\ UNCHANGED <<session, pq, history_messages, command_history>>
    /\ UNCHANGED smallVars

\* mutant: the result is not recorded
store_result_skip(o, key, result) == o

\* results[task['description']] = result     (client/planning.py:548)
store_result(o, key, result) ==
    [o EXCEPT !.results = DictSet(@, key, result), !.stored = @ \cup {o.i}]

\* mutant: execute_task without its try/except
execute_task_handler_none(outcome) == outcome

\* the "except Exception as e: return f'...{str(e)}'" of execute_task
\* (planning.py:131-132, client/planning.py:532-533, client/task.py:143-144)
execute_task_handler(outcome) ==
    IF outcome.kind = "raise" THEN Returned(ExecFailed(outcome.exc)) ELSE outcome

\* "<error>: not connected to any server"      (client/planning.py:501)
NotConnected == <<"ERROR_NOT_CONNECTED">>

\* mutant: execute_task without the test of the connection
execute_task_body_nocheck(binding, task, connected) ==
    IF ~HasKeys(binding, task) THEN Raised(<<"KeyError">>) ELSE Raised(ArityError)

\* client/planning.py:494-533.  connected: a provider is connected, at the
\* call or after the connect_to_server of line 499.  The three-argument call
\* of process_query at line 526 does not fit process_query(self, query) of
\* client.py:101, so the call raises TypeError before the run starts
execute_task_body(binding, task, connected) ==
    IF ~connected THEN Returned(NotConnected)
    ELSE IF ~HasKeys(binding, task) THEN Raised(<<"KeyError">>)
    ELSE Raised(ArityError)

\* the planner's registry in the pipeline: connect_to_server on two servers,
\* "bash" with the tools of the session and "f" with one tool
PlannerConfig ==
    << [name |-> <<"b", "a", "s", "h">>, enabled |-> TRUE, connects |-> TRUE,
        tools |-> SessionTools],
       [name |-> <<"f">>, enabled |-> TRUE, connects |-> TRUE, tools |-> << <<"r">> >>] >>
PlannerTools ==
    connect_to_server([connected_servers |-> <<>>, all_tools |-> <<>>], PlannerConfig).self.all_tools
\* the tool_type of a task as characters
TypeChars(tool_type) ==
    IF tool_type = "bash" THEN <<"b", "a", "s", "h">> ELSE General

NoCandidates == << <<"no candidate set">> >>
NoSelection  == << <<"no tool-selection call">> >>
\* client/planning.py lines 509-523: suitable_tools of the task, when
\* execute_task gets that far
Candidates(o) ==
    IF o.binding = "client_planning" /\ o.connected /\ HasKeys(o.binding, o.tasks[o.i])
    THEN suitable_tools(PlannerTools, TypeChars(o.tasks[o.i].tool_type))
    ELSE NoCandidates
\* the tools the tool-selection LM call of the task was given
Offered(o, inner) ==
    IF o.binding = "planning" /\ pq.offered # <<>> THEN pq.offered ELSE NoSelection

\* "result = await self.execute_task(task)" has come back: inner is how the
\* try body of execute_task ended, outer what execute_task gave its caller
AfterExecuteTask(o, inner, outer) ==
    LET o1 == [o EXCEPT !.exec_log = Append(@, [inner |-> inner, outer |-> outer,
                                                candidates |-> Candidates(o),
                                                offered |-> Offered(o, inner)])] IN
    IF outer.kind = "raise"
    THEN [EntryError(o1, outer.exc) EXCEPT !.et = "raised"]
    ELSE [store_result(o1, Description(o.binding, o.tasks[o.i]), outer.value)
            EXCEPT !.i = o.i + 1, !.pc = "loop"]

\* one round of the loop of execute_tasks starts: execute_task(task) is called
TaskStart ==
    /\ orch.pc = "loop" /\ orch.i <= Len(orch.tasks)
    /\ LET o == [orch EXCEPT !.started = Append(@, orch.i)] IN
       IF orch.binding = "planning"
       THEN /\ process_query_start("execute_task", orch.tasks[orch.i])
            /\ orch' = [o EXCEPT !.pc = "in_task"]
       ELSE /\ \E connects \in BOOLEAN :
                 LET connected == orch.connected \/ connects
                     inner == execute_task_body(orch.binding, orch.tasks[orch.i], connected)
                 IN  orch' = AfterExecuteTask([o EXCEPT !.connected = connected],
                                              inner, execute_task_handler(inner))
            /\ UNCHANGED <<pq, history_messages, command_history>>
    /\ UNCHANGED session
    /\ UNCHANGED smallVars

\* planning.py:128-132, 154-155: process_query has ended, execute_task returns
TaskReturn ==
    /\ orch.pc = "in_task" /\ pq.pc \in {"returned", "raised"}
    /\ LET inner == IF pq.pc = "raised" THEN Raised(pq.result) ELSE Returned(pq.result)
       IN  orch' = AfterExecuteTask(orch, inner, execute_task_handler(inner))
    /\ pq' = PqIdle
    /\ UNCHANGED <<session, history_messages, command_history>>
    /\ UNCHANGED smallVars

\* the loop is over: "return results"
ExecuteTasksReturn ==
    /\ orch.pc = "loop" /\ orch.i > Len(orch.tasks)
    /\ orch' = [orch EXCEPT !.pc = "summarize", !.et = "returned"]
    /\ UNCHANGED <<session, pq, history_messages, command_history>>
    /\ UNCHANGED smallVars

\* summarize_results (client/planning.py:558-585) and the entry point's output
Summarize ==
    /\ orch.pc = "summarize"
    /\ \E out \in LMPlainOutcomes :
         LET n == Len(orch.tasks)
             descs  == [k \in 1..n |-> Description(orch.binding, orch.tasks[k])]
             prompt == [request |-> orch.request,
                        tasks   |-> descs,
                        results |-> [k \in 1..n |-> DictGet(orch.results, descs[k])]]
             o == [orch EXCEPT !.summaries = @ + 1, !.prompt = prompt]
         IN  orch' = IF \E k \in 1..n : ~DictHas(orch.results, descs[k])
                     THEN EntryError(orch, <<"KeyError">>)       \* results[...] at line 561
                     ELSE IF out.kind = "raise" THEN EntryError(o, LMError)
                     ELSE [o EXCEPT !.pc = "done", !.output = out.content]
    /\ UNCHANGED <<session, pq, history_messages, command_history>>
    /\ UNCHANGED smallVars

\* the request is answered; the planner waits for the next one
RequestEnd ==
    /\ orch.pc = "done"
    /\ orch' = OrchIdle
    /\ UNCHANGED <<session, pq, history_messages, command_history>>
    /\ UNCHANGED smallVars

(***************************************************************************)
(* MCPClient.chat_loop (client.py:643-684): process_query called directly. *)
(***************************************************************************)
ChatQuery ==
    /\ orch.pc = "idle" /\ pq.pc = "idle"
    /\ session.requests < MaxRequests
    /\ \E query \in NextQueries : process_query_start("chat_loop", query)
    /\ session' = [session EXCEPT !.requests = @ + 1]
    /\ UNCHANGED orch
    /\ UNCHANGED smallVars

\* lines 676-684: the response, or the error, is printed
ChatPrint ==
    /\ pq.caller = "chat_loop" /\ pq.pc \in {"returned", "raised"}
    /\ pq' = PqIdle
    /\ UNCHANGED <<session, orch, history_messages, command_history>>
    /\ UNCHANGED smallVars

\* lines 664-671: "clear history"
ChatClearHistory ==
    /\ orch.pc = "idle" /\ pq.pc = "idle"
    /\ session.requests < MaxRequests
    /\ Len(history_messages) > 1
    /\ history_messages' = InitialHistory
    /\ command_history' = <<>>
    /\ session' = [session EXCEPT !.requests = @ + 1]
    /\ UNCHANGED <<pq, orch>>
    /\ UNCHANGED smallVars

(***************************************************************************)
(* The pipeline specification.                                             *)
(***************************************************************************)
Init == HistIdle /\ ClIdle /\ PlIdle /\ RunIdle

Next ==
    \/ Request \/ PlanTasks \/ Confirm \/ ExecuteTasksBegin \/ TaskStart
    \/ TaskReturn \/ ExecuteTasksReturn \/ Summarize \/ RequestEnd
    \/ ChatQuery \/ ChatPrint \/ ChatClearHistory
    \/ Translate \/ AutoListTools \/ AutoRunBash \/ ListTools \/ SelectTool
    \/ Call1 \/ Final1 \/ Analysis \/ RetryLM \/ Call2 \/ Final2
    \/ FinalRetryLM \/ Call3 \/ Final3 \/ ErrorResponse

Spec == Init /\ [][Next]_vars

(***************************************************************************)
(* The history specification: any sequence of _add_to_history calls.       *)
(***************************************************************************)
InitHistory == HistIdle /\ ClIdle /\ PlIdle /\ RunIdle

\* one _add_to_history(query, response) call; the response text is fresh
AddTurn ==
    /\ Len(appended) < MaxAppends
    /\ \E query \in Queries :
         LET response == <<"reply", ToString(Len(appended) + 1)>> IN
         /\ SetSelf(add_to_history(Self, query, response))
         /\ appended' = Append(appended, <<query, response>>)
    /\ UNCHANGED <<clVars, plVars, runVars, sideVars>>

NextHistory == AddTurn
SpecHistory == InitHistory /\ [][NextHistory]_vars

(***************************************************************************)
(* The long-session specification: a chat loop of many process_query calls *)
(* (client.py:643-684).  Between its first statement and its end a run     *)
(* touches neither list, so the run is taken in two steps: the call, and   *)
(* the way it ends.                                                        *)
(***************************************************************************)
InitRuns == HistIdle /\ ClIdle /\ PlIdle /\ RunIdle

\* chat_loop calls process_query(query): line 103 records the query
RunQuery ==
    /\ orch.pc = "idle" /\ pq.pc = "idle"
    /\ session.requests < MaxRuns
    /\ \E query \in NextQueries : process_query_start("chat_loop", query)
    /\ session' = [session EXCEPT !.requests = @ + 1]
    /\ UNCHANGED orch
    /\ UNCHANGED smallVars

\* the run ends at one of its "self._add_to_history(...); return ..." pairs
RunReturns ==
    /\ pq.pc = "translate"
    /\ \E text \in LMContents : ReturnText(pq, text)
    /\ UNCHANGED <<session, orch>>
    /\ UNCHANGED smallVars

\* the run ends by an exception that leaves process_query
RunRaises ==
    /\ pq.pc = "translate"
    /\ RaiseOut(pq, LMError)
    /\ UNCHANGED <<session, orch>>
    /\ UNCHANGED smallVars

NextRuns == RunQuery \/ RunReturns \/ RunRaises \/ ChatPrint
SpecRuns == InitRuns /\ [][NextRuns]_vars

(***************************************************************************)
(* The classifier specification: one text, classified at one site.         *)
(***************************************************************************)
InitClassify ==
    /\ HistIdle /\ PlIdle /\ RunIdle
    /\ cl_text \in ClassifierInputs
    /\ cl_site = 0
    /\ cl_verdict = "unset"

Classify ==
    /\ cl_verdict = "unset"
    /\ \E site \in Sites :
         /\ cl_site' = site
         /\ cl_verdict' = IF classify(site, cl_text) THEN "failed" ELSE "ok"
    /\ UNCHANGED <<cl_text, histVars, plVars, runVars, sideVars>>

NextClassify == Classify
SpecClassify == InitClassify /\ [][NextClassify]_vars

(***************************************************************************)
(* The planner specification: plan_tasks on one LM reply.                  *)
(***************************************************************************)
InitPlan ==
    /\ HistIdle /\ ClIdle /\ RunIdle
    /\ pl_content \in PlanContents
    /\ pl_request \in Queries
    /\ pl_out = [kind |-> "none"]

Plan ==
    /\ pl_out.kind = "none"
    /\ pl_out' = plan_tasks(pl_content, pl_request)
    /\ UNCHANGED <<pl_content, pl_request, histVars, clVars, runVars, sideVars>>

NextPlan == Plan
SpecPlan == InitPlan /\ [][NextPlan]_vars


(***************************************************************************)
(* The registry specification: connect_to_server on a configuration, then  *)
(* the tool matching of execute_task; the servers may go down and          *)
(* connect_to_server be called again.                                      *)
(***************************************************************************)
InitRegistry ==
    /\ HistIdle /\ ClIdle /\ PlIdle /\ PipeIdle /\ bash = BashIdle /\ stream = StreamIdle
    /\ ConcIdle
    /\ \E config \in Configs : reg = [RegIdle EXCEPT !.config = config]

\* planner.enable_server(name), planner.disable_server(name)
EnableServer ==
    /\ reg.pc = "idle"
    /\ \E server_name \in ServerNames :
         reg' = [reg EXCEPT !.config = update_server_config(@, server_name, TRUE)]
    /\ UNCHANGED <<histVars, clVars, plVars, runVars, bash, stream, concVars>>

DisableServer ==
    /\ reg.pc = "idle"
    /\ \E server_name \in ServerNames :
         reg' = [reg EXCEPT !.config = update_server_config(@, server_name, FALSE)]
    /\ UNCHANGED <<histVars, clVars, plVars, runVars, bash, stream, concVars>>

\* planner.connect_to_server()
Connect ==
    /\ reg.pc \in {"idle", "down"}
    /\ LET self == [connected_servers |-> reg.connected_servers, all_tools |-> reg.all_tools]
           r    == connect_to_server(self, reg.config)
       IN  reg' = [reg EXCEPT !.pc = "connected", !.ret = r.ret, !.calls = @ + 1,
                              !.before = self,
                              !.connected_servers = r.self.connected_servers,
                              !.all_tools = r.self.all_tools,
                              !.opened = IF r.ret
                                         THEN @ \o [k \in 1..Len(r.self.connected_servers) |->
                                                      NewConnection(r.self.connected_servers[k].name)]
                                         ELSE @]
    /\ UNCHANGED <<histVars, clVars, plVars, runVars, bash, stream, concVars>>

\* every server stops answering
Outage ==
    /\ reg.pc = "connected" /\ reg.calls = 1
    /\ \E k \in 1..Len(reg.config) : reg.config[k].connects
    /\ reg' = [reg EXCEPT !.pc = "down",
                          !.config = [k \in 1..Len(reg.config) |->
                                        [reg.config[k] EXCEPT !.connects = FALSE]]]
    /\ UNCHANGED <<histVars, clVars, plVars, runVars, bash, stream, concVars>>

\* the tool matching of one execute_task call
Match ==
    /\ reg.pc = "connected"
    /\ \E tool_type \in ToolTypes :
         reg' = [reg EXCEPT !.pc = "matched", !.tool_type = tool_type,
                            !.suitable = suitable_tools(reg.all_tools, tool_type)]
    /\ UNCHANGED <<histVars, clVars, plVars, runVars, bash, stream, concVars>>

\* the session ends: planner.cleanup()
Cleanup ==
    /\ reg.pc \in {"connected", "matched"}
    /\ reg' = [reg EXCEPT !.pc = "cleaned",
                          !.opened = cleanup(reg.connected_servers, reg.opened),
                          !.connected_servers = <<>>]
    /\ UNCHANGED <<histVars, clVars, plVars, runVars, bash, stream, concVars>>

NextRegistry == EnableServer \/ DisableServer \/ Connect \/ Outage \/ Match \/ Cleanup
SpecRegistry == InitRegistry /\ [][NextRegistry]_vars

(***************************************************************************)
(* The lazy-connection specification: concurrent execute_task calls on a   *)
(* planner that is not connected (client/planning.py:494-501).             *)
(***************************************************************************)
InitLazy == HistIdle /\ ClIdle /\ PlIdle /\ RunIdle

LazyOthers == UNCHANGED <<histVars, clVars, plVars, runVars, reg, bash, stream, par,
                          output_capture>>

\* execute_task(task) is called
LazyStart ==
    /\ \E r \in LazyRuns :
         /\ lazy.run[r].pc = "idle"
         /\ lazy' = execute_task_start(lazy, r)
    /\ LazyOthers

\* the awaits of one round of the connecting loop have come back
LazyConnect ==
    /\ \E r \in LazyRuns, outcome \in ConnectOutcomes :
         /\ lazy.run[r].pc = "connecting"
         /\ lazy' = connect_round(lazy, r, outcome)
    /\ LazyOthers

\* the task is handed to process_query and execute_task returns
LazyReturn ==
    /\ \E r \in LazyRuns :
         /\ lazy.run[r].pc = "process_query"
         /\ lazy' = [lazy EXCEPT !.run[r].pc = "done"]
    /\ LazyOthers

NextLazy == LazyStart \/ LazyConnect \/ LazyReturn
SpecLazy == InitLazy /\ [][NextLazy]_vars

(***************************************************************************)
(* The concurrency specification: runs on one MCPClient, interleaved at    *)
(* their awaits.                                                           *)
(***************************************************************************)
InitPar == HistIdle /\ ClIdle /\ PlIdle /\ RunIdle

ParOthers == UNCHANGED <<appended, clVars, plVars, runVars, reg, bash, stream, lazy,
                         output_capture>>

\* an HTTP request is served
ParHttp ==
    /\ par.calls < MaxRuns
    /\ \E r \in ParRuns :
         /\ par.run[r].pc = "idle"
         /\ par' = http_request(par, r)
    /\ UNCHANGED <<history_messages, command_history>>
    /\ ParOthers

\* process_query(query) is called: lines 101-211, up to the first await
ParCall ==
    /\ par.calls < MaxRuns
    /\ \E r \in ParRuns :
         /\ par.run[r].pc = "idle"
         /\ command_history' = Append(command_history, ParQuery)
         /\ par' = [par EXCEPT !.calls = @ + 1,
                               !.run[r] = [ParRunIdle EXCEPT !.pc = "list_tools",
                                             !.entry = "direct", !.entered = TRUE]]
    /\ UNCHANGED history_messages
    /\ ParOthers

\* list_tools() has come back (or raised): lines 211-240, 638-641
ParListed ==
    /\ \E r \in ParRuns, out \in {"raise", "text", "tool_call"} :
         /\ par.run[r].pc = "list_tools"
         /\ CASE out = "raise" ->
                   /\ par' = [par EXCEPT !.run[r].pc = "raised"]
                   /\ UNCHANGED <<history_messages, command_history>>
              [] out = "text" ->
                   /\ SetSelf(add_to_history(Self, ParQuery, ParReply))
                   /\ par' = par_appended(par, r)
              [] out = "tool_call" ->
                   /\ par' = [par EXCEPT !.run[r].pc = "call_tool", !.run[r].attempt = 1]
                   /\ UNCHANGED <<history_messages, command_history>>
    /\ ParOthers

\* call_tool(...) has come back: the run ends with its turn, or the model
\* asks for the next attempt (lines 240-460)
ParToolReturn ==
    /\ \E r \in ParRuns, again \in BOOLEAN :
         /\ par.run[r].pc = "call_tool"
         /\ IF again /\ par.run[r].attempt < 3
            THEN /\ par' = [par EXCEPT !.run[r].attempt = @ + 1]
                 /\ UNCHANGED <<history_messages, command_history>>
            ELSE /\ SetSelf(add_to_history(Self, ParQuery, ParReply))
                 /\ par' = par_appended(par, r)
    /\ ParOthers

\* the caller has the result (or the exception)
ParEnd ==
    /\ \E r \in ParRuns :
         /\ par.run[r].pc \in {"done", "raised"}
         /\ par' = [par EXCEPT !.run[r] = ParRunIdle]
    /\ UNCHANGED <<history_messages, command_history>>
    /\ ParOthers

NextPar == ParHttp \/ ParCall \/ ParListed \/ ParToolReturn \/ ParEnd
SpecPar == InitPar /\ [][NextPar]_vars

(***************************************************************************)
(* The two-stream specification: streaming requests served together.       *)
(***************************************************************************)
InitCapture == HistIdle /\ ClIdle /\ PlIdle /\ RunIdle

CaptureOthers == UNCHANGED <<histVars, clVars, plVars, runVars, reg, bash, stream, lazy, par>>

\* lines 176-190: stream_completion subscribes and yields the role chunk
CaptureSubscribe ==
    /\ \E s \in StreamIds :
         /\ output_capture.pc[s] = "idle"
         /\ output_capture' = [output_capture EXCEPT !.pc[s] = "subscribed",
                                                     !.subscribers = @ \cup {s}]
    /\ CaptureOthers

\* lines 193-224: execute() runs; with the provider connected none of its
\* awaits suspends, so it prints all it has to print in one stretch
CaptureExecute ==
    /\ \E s \in StreamIds :
         /\ output_capture.pc[s] = "subscribed"
         /\ output_capture' = [capture_write(output_capture, RunOutput(s))
                                 EXCEPT !.pc[s] = "executed"]
    /\ CaptureOthers

\* lines 227-235: a text is taken from the queue and sent as a chunk
CaptureDeliver ==
    /\ \E s \in StreamIds :
         /\ output_capture.pc[s] = "executed"
         /\ output_capture.queue[s] # <<>>
         /\ output_capture' = [output_capture EXCEPT
                                 !.events[s] = Append(@, Head(output_capture.queue[s])),
                                 !.queue[s] = Tail(@)]
    /\ CaptureOthers

\* lines 236-245: the queue stayed empty for a second; the stream ends and
\* unsubscribes
CaptureDone ==
    /\ \E s \in StreamIds :
         /\ output_capture.pc[s] = "executed"
         /\ output_capture.queue[s] = <<>>
         /\ output_capture' = [output_capture EXCEPT !.pc[s] = "done",
                                                     !.subscribers = @ \ {s}]
    /\ CaptureOthers

NextCapture == CaptureSubscribe \/ CaptureExecute \/ CaptureDeliver \/ CaptureDone
SpecCapture == InitCapture /\ [][NextCapture]_vars

(***************************************************************************)
(* The bash server specification: a sequence of run_bash calls.            *)
(***************************************************************************)
InitBash == HistIdle /\ ClIdle /\ PlIdle /\ PipeIdle /\ reg = RegIdle /\ bash = BashIdle
            /\ stream = StreamIdle /\ ConcIdle

BashOthers == UNCHANGED <<histVars, clVars, plVars, runVars, reg, stream, concVars>>

\* run_bash with no command (line 177), or with a command of a graphical
\* application, which is started detached and not waited for
RunBashDetached ==
    /\ bash.pc = "idle" /\ bash.calls < MaxCalls
    /\ \E use_shell \in BOOLEAN, command \in {"", "gui"}, popen_error \in PopenErrors \cup {<<>>} :
         bash' = [bash EXCEPT
                    !.pc = "returned", !.calls = @ + 1, !.use_shell = use_shell,
                    !.timed_out = FALSE,
                    !.procs = IF command = "gui" /\ popen_error = <<>>
                              THEN Append(@, NewProcess(use_shell, TRUE)) ELSE @,
                    !.last = IF command = "gui" /\ popen_error # <<>>
                             THEN Ended("not_started", 0, <<>>, <<>>) ELSE NoCommand,
                    !.text = IF command = "" THEN NoCommandMessage
                             ELSE IF popen_error = <<>> THEN GuiStarted
                             ELSE GuiFailed(popen_error)]
    /\ BashOthers

\* run_bash with a command that is waited for
RunBash ==
    /\ bash.pc = "idle" /\ bash.calls < MaxCalls
    /\ \E use_shell \in BOOLEAN, popen_error \in PopenErrors \cup {<<>>},
          runtime \in Runtimes, returncode \in ReturnCodes,
          stdout \in Stdouts, stderr \in Stderrs :
         LET proc == IF popen_error = <<>> THEN NewProcess(use_shell, FALSE) ELSE NoProcess
             r == IF use_shell
                  THEN run_bash_shell(proc, popen_error, runtime, returncode, stdout, stderr)
                  ELSE run_bash_exec(proc, popen_error, runtime, returncode, stdout, stderr)
         IN  bash' = [bash EXCEPT
                        !.pc = "returned", !.calls = @ + 1, !.use_shell = use_shell,
                        !.timed_out = r.proc.timed_out,
                        !.procs = IF popen_error = <<>> THEN Append(@, r.proc) ELSE @,
                        !.last = IF popen_error # <<>> THEN Ended("not_started", 0, <<>>, <<>>)
                                 ELSE IF runtime > timeout THEN Ended("timeout", 0, <<>>, <<>>)
                                 ELSE Ended("exit", returncode, stdout, stderr),
                        !.text = r.text]
    /\ BashOthers

\* the text is sent to the client; the server waits for the next call
BashReturn ==
    /\ bash.pc = "returned"
    /\ bash' = [bash EXCEPT !.pc = "idle"]
    /\ BashOthers

NextBash == RunBashDetached \/ RunBash \/ BashReturn
SpecBash == InitBash /\ [][NextBash]_vars

(***************************************************************************)
(* The streaming specification: one request answered by stream_completion. *)
(***************************************************************************)
InitStream == HistIdle /\ ClIdle /\ PlIdle /\ PipeIdle /\ reg = RegIdle /\ bash = BashIdle
              /\ stream = StreamIdle /\ ConcIdle

StreamOthers == UNCHANGED <<histVars, clVars, plVars, runVars, reg, bash, concVars>>

\* lines 176-224: subscribe, send the role chunk, create the task execute()
StreamStart ==
    /\ stream.pc = "idle"
    /\ \E connected \in BOOLEAN :
         stream' = [stream EXCEPT !.pc = "waiting", !.run = "created",
                                  !.connected = connected,
                                  !.events = <<[kind |-> "role", text |-> <<>>]>>]
    /\ StreamOthers

\* the generator waits at line 229: execute() starts and runs to its first
\* real wait or to its end
RunStart ==
    /\ stream.run = "created"
    /\ \E raises \in BOOLEAN, plan \in 0..MaxTasks :
         stream' = StreamExecute(stream, raises, plan)
    /\ StreamOthers

\* the awaited connect_to_server returns: with False execute_task returns
\* the not-connected text, with True it goes on; the run continues to its
\* next real wait or to its end
ConnectReturns ==
    /\ stream.run = "connecting"
    /\ \E ok \in BOOLEAN :
         LET s1 == print([stream EXCEPT !.run = "running", !.connected = ok],
                         <<"LF", IF ok THEN "connected" ELSE "none connected">>)
             s2 == IF ok THEN print(print(s1, <<"LF", "task", ToString(s1.i)>>), <<"tool type">>)
                   ELSE s1
         IN  stream' = StreamExecuteFrom(print(s2, <<"LF", "status", ToString(s1.i)>>), s1.i + 1)
    /\ StreamOthers

\* lines 229-235: queue.get() returns an output; its chunks are sent
Deliver ==
    /\ stream.pc = "waiting" /\ stream.queue # <<>>
    /\ stream' = [stream EXCEPT !.queue = Tail(@),
                                !.events = @ \o ContentEvents(Head(stream.queue))]
    /\ StreamOthers

\* lines 236-242: no output for one second while the event loop is free and
\* the queue is empty: the stop chunk and the sentinel are sent, the
\* generator ends and unsubscribes
QueueTimeout ==
    /\ stream.pc = "waiting" /\ stream.queue = <<>>
    /\ stream.run \in {"connecting", "finished"}
    /\ stream' = [stream EXCEPT !.pc = "closed",
                                !.events = @ \o <<[kind |-> "stop", text |-> <<>>],
                                                  [kind |-> "DONE", text |-> <<>>]>>]
    /\ StreamOthers

NextStream == StreamStart \/ RunStart \/ ConnectReturns \/ Deliver \/ QueueTimeout
SpecStream == InitStream /\ [][NextStream]_vars

(***************************************************************************)
(* Claims.                                                                 *)
(***************************************************************************)

\* C1: in a process_query run whose every tool invocation raised or returned
\* text classified as failed, at most 3 call_tool invocations are issued,
\* the direct run_bash invocation of the translate-to-shell path included.
C1_BoundedRetries ==
    pq.all_failed => pq.tool_calls <= 3

\* C2: execute_task always returns a text to execute_tasks and never raises,
\* whatever happened inside it (no provider, a fault of an LM call, of a tool
\* invocation or of the parsing of tool-call arguments, the refused call of
\* process_query): a fault of its body comes back as the failure text.
C2_ExecuteTaskNeverRaises ==
    /\ orch.et # "raised" \/ orch.exec_log = <<>>
    /\ \A k \in 1..Len(orch.exec_log) :
         LET e == orch.exec_log[k] IN
         /\ e.outer.kind = "return"
         /\ e.inner.kind = "raise" => e.outer.value = ExecFailed(e.inner.exc)
         /\ e.inner.kind = "return" => e.outer = e.inner

\* the model's tool-call arguments were no JSON at attempt 1 of the second
\* task: process_query raised, the task's result is the failure text
C2_Witness ==
    /\ Len(orch.exec_log) = 2
    /\ orch.exec_log[2].inner = Raised(JSONArgsError)
    /\ orch.pc = "loop"
    /\ DictHas(orch.results, <<"B">>)
    /\ DictGet(orch.results, <<"B">>) = ExecFailed(JSONArgsError)

\* first occurrences of the elements of a sequence, in order
RECURSIVE Dedup(_)
Dedup(seq) ==
    IF seq = <<>> THEN <<>>
    ELSE LET front == Dedup(SubSeq(seq, 1, Len(seq) - 1))
             last  == seq[Len(seq)]
         IN  IF \E k \in 1..Len(front) : front[k] = last THEN front
             ELSE Append(front, last)

\* C3: in one execute_tasks run the tasks are started in list order, task i+1
\* is not started before the result of task i is in the results map, at most
\* one task (and so one process_query run) is in flight, and the results map
\* iterates in the order of the task list.
C3_SequentialOrder ==
    orch.et # "-" =>
      /\ \A k \in 1..Len(orch.started) :
           /\ orch.started[k] = k
           /\ \A j \in 1..(k - 1) : j \in orch.stored
      /\ Len(orch.started) - Cardinality(orch.stored) \in {0, 1}
      /\ Len(orch.started) - Cardinality(orch.stored) = 1 <=> orch.pc = "in_task"
      /\ orch.pc # "in_task" => pq.pc = "idle" \/ pq.caller # "execute_task"
      /\ DictKeys(orch.results) =
           Dedup([k \in 1..Cardinality(orch.stored) |->
                    Description(orch.binding, orch.tasks[k])])

\* the second task of a two-task list is in flight, the first one's result
\* is stored; and a finished run whose map iterates as the list
C3_Witness ==
    /\ orch.pc = "in_task" /\ orch.started = <<1, 2>> /\ orch.stored = {1}
    /\ pq.pc = "call2"
    /\ DictKeys(orch.results) = << <<"A">> >>
    /\ orch.tasks = << <<"A">>, <<"B">> >>

\* C4: execute_tasks calls execute_task once for every task, in list order,
\* whatever the earlier tasks returned; it never stops early, and when it
\* ends the results map holds an entry for every task description.
C4_AllTasksExecuted ==
    orch.et \in {"returned", "raised"} =>
      /\ orch.et = "returned"
      /\ orch.started = [k \in 1..Len(orch.tasks) |-> k]
      /\ \A k \in 1..Len(orch.tasks) :
           DictHas(orch.results, Description(orch.binding, orch.tasks[k]))

\* C8: when process_query has returned, exactly one (user, assistant) pair
\* was appended to the history the run started with: the user content is the
\* query as it was given, the assistant content is the returned text.
C8_TurnRecorded ==
    pq.pc = "returned" =>
      LET n == Len(history_messages) IN
      /\ pq.adds = 1
      /\ n >= 3
      /\ history_messages[n - 1] = [role |-> "user", content |-> pq.query]
      /\ history_messages[n] = [role |-> "assistant", content |-> pq.result]
      /\ Len(pq.hist0) + 2 <= 2 * max_history_length + 1
           => SubSeq(history_messages, 1, n - 2) = pq.hist0

\* a second run ended with its retries exhausted: the failure report is both
\* returned and recorded under the second query
C8_Witness ==
    /\ pq.pc = "returned"
    /\ pq.tool_calls = 3
    /\ pq.result = MultiFail(Example1)
    /\ Len(history_messages) = 5
    /\ history_messages[4] = [role |-> "user", content |-> <<"q", "2">>]
    /\ history_messages[5] = [role |-> "assistant", content |-> MultiFail(Example1)]

\* C9: when plan_tasks returned an empty list, the entry point emits the fixed
\* message, no execute_tasks / execute_task / summarize_results call is made,
\* and history_messages and command_history are as they were.
C9_EmptyPlan ==
    ( orch.planned = "return" /\ orch.tasks = <<>> ) =>
      /\ orch.pc = "done"
      /\ orch.entry \in Entries
      /\ orch.output = NoTasksMessage(orch.entry)
      /\ orch.et = "-" /\ orch.started = <<>> /\ orch.exec_log = <<>>
      /\ orch.summaries = 0
      /\ history_messages = orch.hist0
      /\ command_history = orch.cmd0
      /\ pq.pc = "idle"

\* the streaming entry point answered an empty plan after an earlier chat turn
C9_Witness ==
    /\ orch.entry = "stream" /\ orch.planned = "return" /\ orch.tasks = <<>>
    /\ orch.output = <<"NO_TASKS_EXTRACTED_FROM_THE_REQUEST">>
    /\ Len(history_messages) = 3

\* a is a subsequence of b (same order, maybe with gaps)
RECURSIVE IsSubSeq(_, _)
IsSubSeq(a, b) ==
    IF a = <<>> THEN TRUE
    ELSE IF b = <<>> THEN FALSE
    ELSE IF Head(a) = Head(b) THEN IsSubSeq(Tail(a), Tail(b))
    ELSE IsSubSeq(a, Tail(b))

\* the provider a registered tool came from
ProviderOf(name) ==
    { reg.connected_servers[k].name : k \in { i \in 1..Len(reg.connected_servers) :
        \E t \in 1..Len(reg.connected_servers[i].tools) :
            reg.connected_servers[i].tools[t] = name } }

\* what the matching rule selects
Selected(name) ==
    \/ \E pr \in ProviderOf(name) : Lower(pr) = Lower(reg.tool_type)
    \/ Contains(Lower(name), Lower(reg.tool_type))

\* C12: for a tool_type other than "general" the candidates are the registered
\* tools whose provider equals tool_type or whose qualified name contains it,
\* both without regard to case, in registration order; for "general", or when
\* nothing matches, the candidates are the whole registry.  So the candidates
\* are always tools of the registry, and there are some when the registry is
\* not empty.
C12_ToolMatching ==
    reg.pc = "matched" =>
      LET n    == Len(reg.all_tools)
          hits == { i \in 1..n : Selected(reg.all_tools[i]) }
      IN  /\ IF reg.tool_type = General \/ hits = {}
             THEN reg.suitable = reg.all_tools
             ELSE /\ Len(reg.suitable) = Cardinality(hits)
                  /\ IsSubSeq(reg.suitable, reg.all_tools)
                  /\ \A i \in 1..n :
                       i \in hits <=> \E k \in 1..Len(reg.suitable) :
                                         reg.suitable[k] = reg.all_tools[i]
          /\ \A k \in 1..Len(reg.suitable) :
               \E i \in 1..n : reg.suitable[k] = reg.all_tools[i]
          /\ reg.all_tools # <<>> => reg.suitable # <<>>

\* tool_type "A" picked the tools of provider "a" out of a registry that
\* also holds a tool of provider "C"
C12_Witness ==
    /\ reg.pc = "matched"
    /\ reg.tool_type = <<"A">>
    /\ reg.all_tools = << <<"a", ".", "e">>, <<"C", ".", "e">> >>
    /\ reg.suitable = << <<"a", ".", "e">> >>

\* C13: after connect_to_server no two tools of all_tools have the same
\* qualified name, whatever the server names and the per-server tool lists
\* are (names with a dot included).
C13_UniqueNames ==
    reg.pc = "connected" => NoDuplicates(reg.all_tools)

\* the tool types the planner prompt lists
Vocabulary == {"bash", "weather", "calendar", "email", "web", "database", "media",
               "document", "general"}

\* C14: every task that plan_tasks returned and that is handed to
\* execute_tasks has a tool_type, and it is one of the listed tool types.
C14_ToolTypeVocabulary ==
    ( orch.binding = "client_planning" /\ orch.planned = "return" ) =>
      \A k \in 1..Len(orch.tasks) :
        /\ "tool_type" \in DOMAIN orch.tasks[k]
        /\ orch.tasks[k].tool_type \in Vocabulary

\* C15: when no provider is connected at the start of a task and connecting
\* fails, execute_task returns the not-connected text at once: no
\* process_query run (so no LM call and no tool invocation) is made for the
\* task, and execute_tasks goes on to the remaining tasks and returns.
C15_NotConnected ==
    ( orch.binding = "client_planning" /\ orch.exec_log # <<>> /\ ~orch.connected ) =>
      /\ \A k \in 1..Len(orch.exec_log) :
           /\ orch.exec_log[k].outer = Returned(NotConnected)
           /\ DictGet(orch.results, orch.tasks[k].description) = NotConnected
      /\ pq = PqIdle
      /\ history_messages = orch.hist0 /\ command_history = orch.cmd0
      /\ orch.et \in {"running", "returned"}
      /\ orch.pc = "loop" => orch.i = Len(orch.exec_log) + 1
      /\ orch.et = "returned" => Len(orch.exec_log) = Len(orch.tasks)

\* both tasks of a list found no provider; execute_tasks has returned
C15_Witness ==
    /\ orch.binding = "client_planning" /\ ~orch.connected
    /\ orch.et = "returned" /\ orch.pc = "summarize"
    /\ orch.results = << << <<"A">>, NotConnected >>, << <<"B">>, NotConnected >> >>

\* the servers of a list that connect, in order
RECURSIVE Connecting(_)
Connecting(servers) ==
    IF servers = <<>> THEN <<>>
    ELSE IF Head(servers).connects THEN <<Head(servers)>> \o Connecting(Tail(servers))
    ELSE Connecting(Tail(servers))

\* C16: connect_to_server returns True exactly when at least one of the
\* servers it tried connected; then connected_servers and all_tools hold the
\* entries and the tools of the servers that connected, and nothing of a
\* server that failed, also when the failing server came first; when none
\* connected it returns False and both fields are as they were before.
C16_ConnectResult ==
    reg.pc = "connected" =>
      LET ok == Connecting(enabled_servers(reg.config)) IN
      /\ reg.ret <=> ok # <<>>
      /\ reg.ret =>
           /\ [k \in 1..Len(reg.connected_servers) |-> reg.connected_servers[k].name]
                = [k \in 1..Len(ok) |-> ok[k].name]
           /\ \A k \in 1..Len(ok) :
                reg.connected_servers[k].tools =
                  [t \in 1..Len(ok[k].tools) |-> QualifiedName(ok[k].name, ok[k].tools[t])]
           /\ reg.all_tools =
                Flatten([k \in 1..Len(ok) |-> reg.connected_servers[k].tools])
      /\ ~reg.ret =>
           /\ reg.connected_servers = reg.before.connected_servers
           /\ reg.all_tools = reg.before.all_tools

\* of two enabled servers the first failed and the second connected; then
\* all went down and a second call returned False and kept the registry
C16_Witness ==
    /\ reg.pc = "connected" /\ reg.calls = 2 /\ ~reg.ret
    /\ Len(reg.config) = 2 /\ reg.config[1].enabled /\ reg.config[2].enabled
    /\ Len(reg.connected_servers) = 1
    /\ reg.connected_servers[1].name = reg.config[2].name
    /\ Len(reg.all_tools) = 2

\* C17: after cleanup every connection that connect_to_server opened is
\* closed and its server process is terminated.
C17_CleanupCloses ==
    reg.pc = "cleaned" =>
      \A k \in 1..Len(reg.opened) : reg.opened[k].closed /\ reg.opened[k].terminated

\* C18: when the subprocess of a run_bash call ran past the timeout, in shell
\* mode and in non-shell mode, the text returned is classified as failed at
\* every site and no subprocess that timed out is still running.
C18_TimeoutKills ==
    bash.pc = "returned" =>
      /\ bash.timed_out => \A site \in Sites : classify(site, bash.text)
      /\ \A k \in 1..Len(bash.procs) :
           bash.procs[k].timed_out => bash.procs[k].state # "running"

\* C19: the stop chunk and the sentinel are sent once, as the last events of
\* the stream, only after the run of the request has finished, and the run
\* produces no output after the sentinel was sent.
C19_DoneAfterRun ==
    LET ev == stream.events
        done == { k \in 1..Len(ev) : ev[k].kind = "DONE" }
        stop == { k \in 1..Len(ev) : ev[k].kind = "stop" }
    IN  /\ Cardinality(done) <= 1 /\ Cardinality(stop) <= 1
        /\ done # {} => done = {Len(ev)} /\ stop = {Len(ev) - 1}
        /\ done # {} => stream.run = "finished"
        /\ stream.late = 0

\* C20: once a tool-enabled LM call of a run was answered with a plain
\* message, the run makes no further LM call and no tool invocation, and it
\* ends by returning that message.
C20_PlainIsTerminal ==
    pq.plain.seen =>
      /\ pq.lm_calls = pq.plain.lm_calls
      /\ pq.tool_calls = pq.plain.tool_calls
      /\ pq.pc \in {"returned", "raised"} =>
           pq.pc = "returned" /\ pq.result = pq.plain.content

\* the number of the attempt a tool invocation of the log belongs to, 0 for
\* the direct run_bash invocation
AttemptOf(t) ==
    CASE t.at = "call1" -> 1 [] t.at = "call2" -> 2 [] t.at = "call3" -> 3 [] OTHER -> 0

\* the invocation returned a text that the site of its attempt classifies ok
ClassifiedOk(t) ==
    /\ AttemptOf(t) > 0 /\ t.out.kind = "text"
    /\ ~classify(Site(t.branch, AttemptOf(t)), t.out.text)

\* C21: once a tool invocation of attempt 1, 2 or 3 returned text classified
\* ok, it is the last tool invocation of the run, exactly one more LM call
\* is made and the run returns the text of that call.
C21_SuccessFinalizes ==
    \A k \in 1..Len(pq.tools) :
      ClassifiedOk(pq.tools[k]) =>
        /\ k = Len(pq.tools)
        /\ pq.lm_calls <= pq.tools[k].lm_calls + 1
        /\ pq.pc \in {"returned", "raised"} =>
             pq.pc = "returned" /\ pq.lm_calls = pq.tools[k].lm_calls + 1

\* C22: a run returns text that a tool invocation returned and that the
\* classifier flags as failed only when 3 tool invocations were made; this
\* holds for the direct run_bash invocation too.
C22_FlaggedTextRetried ==
    ( pq.pc = "returned" /\ pq.tools # <<>> ) =>
      LET last == pq.tools[Len(pq.tools)] IN
      ( /\ last.out.kind = "text"
        /\ \A site \in Sites : classify(site, last.out.text)
        /\ Contains(pq.result, last.out.text) )
      => pq.tool_calls >= 3

C24_CandidatesOffered ==
    \A k \in 1..Len(orch.exec_log) :
      orch.exec_log[k].candidates # NoCandidates =>
        orch.exec_log[k].offered = orch.exec_log[k].candidates

\* C25: when the LM reply is itself the JSON of an object with a "tasks"
\* array, plan_tasks returns exactly that array, also when a string of the
\* reply contains a code fence.
C25_ValidJsonUnchanged ==
    ( /\ pl_out.kind # "none" /\ pl_content # None
      /\ JsonLoads(pl_content).type = "dict" /\ JsonLoads(pl_content).haskey )
    => pl_out = Returned(JsonLoads(pl_content).tasks)

\* C26: a request whose non-empty task list was handed to execute_tasks ends
\* with summarize_results called exactly once; the call is made only after
\* execute_task has returned for every task, its prompt holds the request,
\* the descriptions in task order and one result line per task, and the text
\* it returns is the final text of the request
C26_SummarizedOnce ==
    /\ orch.summaries <= 1
    /\ orch.summaries = 1 =>
         /\ orch.et = "returned"
         /\ Len(orch.exec_log) = Len(orch.tasks)
         /\ orch.prompt.request = orch.request
         /\ orch.prompt.tasks = [k \in 1..Len(orch.tasks) |->
                                   Description(orch.binding, orch.tasks[k])]
         /\ Len(orch.prompt.results) = Len(orch.tasks)
         /\ (orch.pc = "done" /\ orch.output[1] # "ERROR:") => orch.output \in LMContents
    /\ (orch.pc \in {"done", "exited"} /\ orch.tasks # <<>> /\ orch.et # "-")
         => orch.summaries = 1

\* C27: from the start of a process_query run until its result has been
\* produced, history_messages and command_history are what they were when the
\* run was called; a run that ends by raising leaves both as it found them
C27_StateUntouchedInRun ==
    pq.pc \notin {"idle", "returned"} =>
        /\ history_messages = pq.hist0
        /\ command_history = pq.cmd0

\* C28: command_history never holds more than max_history_length entries,
\* neither while a query is being processed nor after runs that raised
C28_CommandHistoryBounded == Len(command_history) <= max_history_length

C30_RegistryOfConnected ==
    /\ reg.all_tools = Flatten([k \in 1..Len(reg.connected_servers) |->
                                  reg.connected_servers[k].tools])
    /\ reg.pc = "cleaned" => reg.all_tools = <<>>

\* a connection that is open, and the connections self.connected_servers holds
Live(c) == ~lazy.opened[c].closed
Referenced(c) ==
    \E j \in 1..Len(lazy.connected_servers) : lazy.connected_servers[j].client = c

\* C31: when no connect_to_server call is in progress, no two live
\* connections are of the same provider and every live connection is one
\* that connected_servers holds
C31_OneLiveConnection ==
    (\A r \in LazyRuns : lazy.run[r].pc # "connecting") =>
       /\ \A c, d \in 1..Len(lazy.opened) :
            (Live(c) /\ Live(d) /\ lazy.opened[c].server = lazy.opened[d].server) => c = d
       /\ \A c \in 1..Len(lazy.opened) : Live(c) => Referenced(c)

\* C32: concurrent HTTP requests on the shared planner use the provider
\* connection of the shared MCPClient: a request that executed its task ran
\* process_query on it, where runs are in flight together and append between
\* each other's snapshot and append
C32_RequestsShareConnection ==
    \A r \in ParRuns :
       (par.run[r].entry = "http" /\ par.run[r].pc = "done") => par.run[r].entered

\* C33: under every interleaving of concurrent process_query runs, the
\* history after its leading system message is made of adjacent
\* (user, assistant) pairs, each the query and the reply of one turn, and
\* holds at most max_history_length pairs
C33_PairsStayAdjacent ==
    LET n == Len(history_messages) IN
    /\ n >= 1 /\ IsSystem(history_messages[1])
    /\ (n - 1) % 2 = 0
    /\ \A k \in 1..((n - 1) \div 2) :
         /\ history_messages[2 * k] = [role |-> "user", content |-> ParQuery]
         /\ history_messages[2 * k + 1] = [role |-> "assistant", content |-> ParReply]
    /\ (n - 1) \div 2 <= max_history_length
\* a run appended its turn to a full history after another run had appended
\* between its snapshot and its append, while the other run is in flight again
C33_Witness ==
    /\ Len(history_messages) = 2 * max_history_length + 1
    /\ par.calls > max_history_length + 1
    /\ \E r, q \in ParRuns :
         /\ par.run[r].pc = "done" /\ par.run[r].overlapped
         /\ par.run[q].pc = "call_tool"

\* C34: the result line that summarize_results embeds for task i is the
\* string task i's own execute_task call returned, also when descriptions
\* repeat, and the results map has one entry per task
C34_OwnResultPerTask ==
    orch.summaries = 1 =>
      /\ \A k \in 1..Len(orch.tasks) :
           orch.prompt.results[k] = orch.exec_log[k].outer.value
      /\ Len(orch.results) = Len(orch.tasks)

\* C35: a process_query run never ends by the JSONDecodeError of a tool
\* call's arguments: the fault counts as a failed attempt, and the run
\* returns a string and has recorded its turn
C35_BadArgsHandled ==
    /\ pq.pc = "raised" => pq.result # JSONArgsError
    /\ pq.pc = "returned" => pq.adds = 1

\* C36: for a task with description and tool_type, executed with a provider
\* connected, what execute_task returns is what process_query returned; it
\* is the failure text only when an LM call or a tool invocation of the run
\* faulted
C36_TaskRunsStateMachine ==
    \A k \in 1..Len(orch.exec_log) :
      LET e == orch.exec_log[k] IN
      e.candidates # NoCandidates =>
        /\ e.inner.kind = "return" => e.outer = e.inner
        /\ e.inner.kind = "raise" =>
             e.inner.exc \in {LMError, ListToolsError} \cup ToolExcs

\* C37: after connect_to_server, every entry of connected_servers is a
\* server whose enabled flag is true in the configuration, also when every
\* configured server is disabled
C37_OnlyEnabledConnected ==
    reg.pc = "connected" =>
      \A j \in 1..Len(reg.connected_servers) :
        \E k \in 1..Len(reg.config) :
           /\ reg.config[k].name = reg.connected_servers[j].name
           /\ reg.config[k].enabled

\* C38: every chunk sent on the stream of a request was printed by the run
\* of that request
C38_StreamsIsolated ==
    \A s \in StreamIds :
      \A k \in 1..Len(output_capture.events[s]) : output_capture.events[s][k].origin = s

\* C39: the text run_bash returns for a command that exited with a
\* non-zero status, timed out or could not be started is classified as failed
\* at every site; the text for a command that exited with status 0 is
\* classified ok unless what the command wrote holds an indicator
C39_ResultsClassified ==
    bash.pc = "returned" =>
      /\ ( \/ bash.last.kind \in {"timeout", "not_started"}
           \/ bash.last.kind = "exit" /\ bash.last.status # 0 )
         => \A site \in Sites : classify(site, bash.text)
      /\ ( /\ bash.last.kind = "exit" /\ bash.last.status = 0
           /\ \A site \in Sites : ~classify(site, bash.last.stdout)
                                  /\ ~classify(site, bash.last.stderr) )
         => \A site \in Sites : ~classify(site, bash.text)

\* the error text of a tool outcome: the exception text or the returned text
ErrorText(out) == IF out.kind = "raise" THEN out.exc ELSE out.text

\* C11: when attempts 1, 2 and 3 of a run have all failed, the result is the
\* failure report and it contains the error text of attempt 3 (the text the
\* tool returned, or the text of the exception), whatever the earlier
\* attempts gave.
C11_LastErrorReported ==
    ( pq.pc = "returned" /\ pq.exhausted ) =>
      LET last == pq.tools[Len(pq.tools)].out IN
      /\ pq.tools[Len(pq.tools)].at = "call3"
      /\ Len(pq.tools) >= 3
      /\ pq.result[1] = "MULTI_FAIL:"
      /\ Contains(pq.result, ErrorText(last))
      /\ pq.result = IF last.kind = "raise"
                     THEN <<"MULTI_FAIL:">> \o last.exc \o <<"PLEASE_CHECK">>
                     ELSE <<"MULTI_FAIL:">> \o last.text

\* attempts 1 and 2 returned a failure text, attempt 3 raised: the report
\* carries the exception text
C11_Witness ==
    /\ pq.pc = "returned" /\ pq.exhausted
    /\ Len(pq.tools) = 3
    /\ pq.tools[1].out = [kind |-> "text", text |-> Example1]
    /\ pq.tools[2].out = [kind |-> "text", text |-> Example1]
    /\ pq.tools[3].out = [kind |-> "raise", exc |-> <<"E1">>]
    /\ pq.result = <<"MULTI_FAIL:", "E1", "PLEASE_CHECK">>

\* C5: whenever the LM reply is a text that is not valid JSON, neither as it
\* is nor after the code fences have been stripped, plan_tasks returns
\* exactly one task: description = the user request, tool_type = "general".
C5_DecompositionFallback ==
    ( /\ pl_out.kind # "none"
      /\ pl_content # None
      /\ JsonLoads(pl_content) = JSONDecodeError
      /\ JsonLoads(CleanContent(pl_content)) = JSONDecodeError )
    => /\ pl_out.kind = "return"
       /\ Len(pl_out.value) = 1
       /\ pl_out.value[1].description = pl_request
       /\ pl_out.value[1].tool_type = "general"

\* a fenced reply whose block is prose has been planned into the fallback task
C5_Witness ==
    /\ pl_content = <<"FENCE", "json", "txt", "FENCE">>
    /\ pl_out = Returned(<< [description |-> pl_request, tool_type |-> "general"] >>)

\* C6: plan_tasks never raises whatever the LM reply is (prose, a JSON array,
\* string or number, an object without "tasks", fenced content, null
\* content): it always returns a task list, and the single-task fallback
\* whenever the content does not parse into an object.
C6_PlanNeverRaises ==
    pl_out.kind # "none" =>
        /\ pl_out.kind = "return"
        /\ ( pl_content = None
             \/ JsonLoads(CleanContent(pl_content)) = JSONDecodeError
             \/ JsonLoads(CleanContent(pl_content)).type # "dict" )
           => pl_out = Returned(FallbackTasks(pl_request))

\* C7: history_messages is the one leading system message followed by the
\* most recent min(n, 10) appended (user, assistant) pairs, in append order.
PairMessages(p) == << [role |-> "user", content |-> p[1]],
                      [role |-> "assistant", content |-> p[2]] >>

C7_HistoryWindow ==
    LET kept == LastN(appended, max_history_length) IN
    /\ history_messages =
         <<SystemMessage>> \o Flatten([i \in 1..Len(kept) |-> PairMessages(kept[i])])
    /\ Len(history_messages) <= 2 * max_history_length + 1
    /\ \A i \in 2..Len(history_messages) : history_messages[i].role # "system"

\* H+5 pairs were appended: the 5 oldest are gone, the 10 newest remain
C7_Witness ==
    /\ Len(appended) = max_history_length + 5
    /\ Len(history_messages) = 2 * max_history_length + 1
    /\ history_messages[2].content = appended[6][1]
    /\ history_messages[3].content = appended[6][2]

\* C10: a tool result is treated as failed exactly when its lower-cased text
\* contains "error", "exception" or "failed", or the text itself contains
\* one of the nine localized indicators; the same rule at every site.
ClaimedFailed(text) ==
    \/ \E w \in { <<"e","r","r","o","r">>, <<"e","x","c","e","p","t","i","o","n">>,
                  <<"f","a","i","l","e","d">> } : Contains(Lower(text), w)
    \/ \E w \in { <<"u5931","u8d25">>, <<"u4e0d","u5b58","u5728">>, <<"u65e0","u6cd5">>,
                  <<"u9519","u8bef">>, <<"u672a","u627e","u5230">>, <<"u65e0","u6548">>,
                  <<"u8bf7","u68c0","u67e5">>, <<"u8bf7","u786e","u8ba4">>,
                  <<"u4e0d","u6b63","u786e">> } : Contains(text, w)

C10_ClassifierRule ==
    cl_verdict # "unset" =>
        /\ cl_verdict = "failed" <=> ClaimedFailed(cl_text)
        /\ cl_text = Example1 => cl_verdict = "failed"
        /\ cl_text = Example2 => cl_verdict = "ok"
        /\ cl_text = Example3 => cl_verdict = "failed"

\* an upper-case indicator split over two pieces ("FAIL" + "ed") was
\* classified as failed at the last site
C10_Witness ==
    /\ cl_text = <<"F","A","I","L","e","d">>
    /\ cl_site = 579
    /\ cl_verdict = "failed"

=============================================================================
